---- MODULE Spec2Model ----
(***************************************************************************)
(* Supernote viewer: the .note container parser (parser.ts), the RATTA_RLE *)
(* bitmap decoder (renderer.ts) and the .mark block readers                *)
(* (mark-parser.ts), as state machines over byte buffers.                  *)
(*                                                                         *)
(* Bytes are integers 0..255, buffers are sequences of bytes.  JavaScript  *)
(* offsets are 0-based: byte offset k of a buffer b is b[k + 1].           *)
(***************************************************************************)
EXTENDS Integers, Sequences, FiniteSets, TLC

VARIABLES
  \* ---- decodeRLE (renderer.ts) ----
  buffer,        \* the encoded bitmap handed to decodeRLE
  width,         \* decodeRLE's width argument
  height,        \* decodeRLE's height argument
  resultLen,     \* result.length of the Uint8Array allocated by decodeRLE
  result,        \* the raster: the pixel runs written so far, clipped to the array
  maxIdx,        \* the highest byte index any pixel write has touched (-1: none)
  resultOffset,  \* decodeRLE's resultOffset (a byte offset)
  holder,        \* decodeRLE's holder: <<>> for null, else <<color, length>>
  i,             \* decodeRLE's loop index
  writes,        \* the writePixels calls made so far: <<color, offset, count>>
  pc,            \* "loop" while decodeRLE runs, "done" once it has returned
  \* ---- the block readers (parser.ts, mark-parser.ts) ----
  blkBuffer,     \* the file buffer a block is read from
  blkAddress,    \* the address argument
  blkReader,     \* which reader is called
  blkParts,      \* how the buffer was put together: prefix, content, suffix
  blkOut,        \* what the reader returned ("pending" before the call)
  \* ---- parseSupernoteFile (parser.ts) ----
  noteBuffer,    \* the file buffer handed to parseSupernoteFile
  noteMade,      \* how the file was put together
  noteOut,       \* the Document returned or the error thrown ("pending" before)
  \* ---- extractKeyValue (parser.ts), extractParameters (mark-parser.ts) ----
  tagText,       \* the text handed to the extractor
  tagExtractor,  \* which extractor is called
  tagOut,        \* the object the extractor returned, once it has
  \* ---- renderPage (renderer.ts) ----
  renNote,       \* the Document handed to renderPage
  renIndex,      \* the pageIndex of the last renderPage call
  renOut,        \* what the last renderPage call returned
  renFirst,      \* the first renderPage call: its pageIndex, its result, the pageIndex of the calls since
  \* ---- decodeRle (mark-renderer.ts) beside decodeRLE ----
  annData,       \* the encoded bitmap handed to both decoders
  annWidth,      \* the width argument
  annHeight,     \* the height argument
  annOut,        \* the pixel runs decodeRle and decodeRLE wrote, once they have
  \* ---- SupernoteViewerPlugin (main.ts) ----
  imageCache,    \* the plugin imageCache: the set of entries, one per cached path
  cacheOrder,    \* the plugin cacheOrder array
  filePositions, \* data.filePositions: the set of <<path, page>> stored
  cacheCalls,    \* the number of calls made on the cache so far
  \* ---- SupernoteView and the vault (main.ts) ----
  fileStat,      \* the vault: for each path the mtime of its file, which also numbers its contents
  views,         \* the SupernoteView objects constructed so far, by number
  tasks,         \* the onLoadFile calls suspended at an await
  \* ---- extractNestedKeyValue on a footer (parser.ts) ----
  grpText,       \* the footer text whose tags are grouped
  grpOut,        \* the record read from the text and its grouping, once made
  \* ---- readUint32LE (parser.ts, mark-parser.ts) ----
  u32Data,       \* the four bytes handed to a readUint32LE
  u32Reader,     \* which readUint32LE is called
  u32Out,        \* the number it returned, once it has
  \* ---- AnnotatedPdfView (annotated-pdf-view.ts) ----
  pdfView,       \* the AnnotatedPdfView object
  pdfTasks       \* its onLoadFile and reRenderPages calls suspended at an await

rleVars == <<buffer, width, height, resultLen, result, maxIdx, resultOffset,
             holder, i, writes, pc>>
blkVars == <<blkBuffer, blkAddress, blkReader, blkParts, blkOut>>
noteVars == <<noteBuffer, noteMade, noteOut>>
tagVars == <<tagText, tagExtractor, tagOut>>
renVars == <<renNote, renIndex, renOut, renFirst>>
annVars == <<annData, annWidth, annHeight, annOut>>
plgVars == <<imageCache, cacheOrder, filePositions, cacheCalls>>
viewVars == <<fileStat, views, tasks>>
grpVars == <<grpText, grpOut>>
u32Vars == <<u32Data, u32Reader, u32Out>>
pdfVars == <<pdfView, pdfTasks>>

vars == <<rleVars, blkVars, noteVars, tagVars, renVars, annVars, plgVars, viewVars, grpVars, u32Vars, pdfVars>>

\* the decoder is not running
IdleRle ==
  /\ buffer = <<>> /\ width = 0 /\ height = 0 /\ resultLen = 0
  /\ result = <<>> /\ maxIdx = -1 /\ resultOffset = 0 /\ holder = <<>>
  /\ i = 1 /\ writes = <<>> /\ pc = "idle"

\* no block is being read
IdleBlk ==
  /\ blkBuffer = <<>> /\ blkAddress = 0 /\ blkReader = "none"
  /\ blkParts = [built |-> FALSE]
  /\ blkOut = [kind |-> "pending"]

\* no file is being parsed
IdleNote ==
  /\ noteBuffer = <<>> /\ noteMade = [shape |-> "none"]
  /\ noteOut = [kind |-> "pending"]

\* no text is being scanned for tags
IdleTag ==
  /\ tagText = <<>> /\ tagExtractor = "none"
  /\ tagOut = [done |-> FALSE, data |-> <<>>]

\* no page is being rendered
IdleRen ==
  /\ renNote = [pageWidth |-> 0, pageHeight |-> 0, pages |-> <<>>]
  /\ renIndex = 0
  /\ renOut = [kind |-> "pending"]
  /\ renFirst = [kind |-> "idle"]

\* no mark bitmap is being decoded
IdleAnn ==
  /\ annData = <<>> /\ annWidth = 0 /\ annHeight = 0
  /\ annOut = [done |-> FALSE, mark |-> <<>>, note |-> <<>>]

\* the plugin before any view has used it
IdlePlg ==
  /\ imageCache = {} /\ cacheOrder = <<>> /\ filePositions = {} /\ cacheCalls = 0

\* no vault and no view
IdleView ==
  /\ fileStat = <<>> /\ views = <<>> /\ tasks = {}

\* no footer is being grouped
IdleGrp ==
  /\ grpText = <<>>
  /\ grpOut = [done |-> FALSE, record |-> <<>>, data |-> <<>>]

\* no four bytes are being read
IdleU32 ==
  /\ u32Data = <<>> /\ u32Reader = "none"
  /\ u32Out = [done |-> FALSE, value |-> [neg |-> FALSE, hi |-> 0, lo |-> 0]]

\* no annotated PDF view exists
IdlePdf ==
  /\ pdfView = [file |-> 0] /\ pdfTasks = {}

Min(a, b) == IF a <= b THEN a ELSE b
Max(a, b) == IF a >= b THEN a ELSE b

RECURSIVE Pow2(_)
Pow2(k) == IF k = 0 THEN 1 ELSE 2 * Pow2(k - 1)

\* x << k for the non-negative x the decoder shifts (all results stay below 2^31)
Shl(x, k) == x * Pow2(k)

-----------------------------------------------------------------------------
(* renderer.ts: the colour table and the decoder                            *)

SPECIAL_LENGTH_MARKER == 255
SPECIAL_LENGTH == 16384

\* ENCODED_COLORS[encodedColor] || [0, 0, 0, 0]
EncodedColor(c) ==
  CASE c = 97  -> <<0, 0, 0, 255>>
    [] c = 98  -> <<255, 255, 255, 0>>
    [] c = 99  -> <<169, 169, 169, 255>>
    [] c = 100 -> <<128, 128, 128, 255>>
    [] c = 101 -> <<255, 255, 255, 255>>
    [] c = 102 -> <<0, 0, 0, 255>>
    [] c = 103 -> <<169, 169, 169, 255>>
    [] c = 104 -> <<128, 128, 128, 255>>
    [] c = 157 -> <<169, 169, 169, 255>>
    [] c = 201 -> <<128, 128, 128, 255>>
    [] c = 158 -> <<169, 169, 169, 255>>
    [] c = 202 -> <<128, 128, 128, 255>>
    [] OTHER   -> <<0, 0, 0, 0>>

\* The number of loop rounds i = 0..count-1 of writePixels whose guard
\* idx + 3 < result.length passes, idx = offset + i*4.  The guard is monotone
\* in i, so the pixels written are the first InBoundsCount of the run.
InBoundsCountUnguarded(len, offset, count) == Max(0, count)
InBoundsCount(len, offset, count) ==
  Max(0, Min(count, (len - offset) \div 4))

\* writePixels(result, offset, encodedColor, count) on the raster raster =
\* [runs, maxIdx]: the pixels written form one run [from, to) of pixel indices
WritePixels(raster, len, offset, encodedColor, count) ==
  LET n == InBoundsCount(len, offset, count)
      rgba == EncodedColor(encodedColor)
  IN  IF n = 0 THEN raster
      ELSE [runs   |-> Append(raster.runs,
                              [rgba |-> rgba, from |-> offset \div 4,
                               to |-> offset \div 4 + n]),
            maxIdx |-> Max(raster.maxIdx, offset + (n - 1) * 4 + 3)]

\* Length of the run a pending holder and a same-coloured pair merge into
MergedLengthNoCarry(length, prevLength) == 1 + length
MergedLength(length, prevLength) ==
  1 + length + Shl((prevLength % 128) + 1, 7)

\* Length of the run a pending holder is flushed as before a different colour
HolderFlushLengthNoPlusOne(prevLength) == Shl(prevLength % 128, 7)
HolderFlushLength(prevLength) == Shl((prevLength % 128) + 1, 7)

\* The tail loop of decodeRLE: for (i = 7; i >= 0; i--) take the first
\* testLength = ((length & 127) + 1) << i with testLength * 4 <= gap, else 0
RECURSIVE TailLengthFrom(_, _, _)
TailLengthFrom(k, length, gap) ==
  IF k < 0 THEN 0
  ELSE LET testLength == Shl((length % 128) + 1, k)
       IN  IF testLength * 4 <= gap THEN testLength
           ELSE TailLengthFrom(k - 1, length, gap)

RECURSIVE TailLengthPixelGapFrom(_, _, _)
TailLengthPixelGapFrom(k, length, gap) ==
  IF k < 0 THEN 0
  ELSE LET testLength == Shl((length % 128) + 1, k)
       IN  IF testLength <= gap THEN testLength
           ELSE TailLengthPixelGapFrom(k - 1, length, gap)

TailLengthPixelGap(length, gap) == TailLengthPixelGapFrom(7, length, gap)
TailLengthSmallestFirst(length, gap) ==
  IF ((length % 128) + 1) * 4 <= gap THEN (length % 128) + 1 ELSE 0
TailLength(length, gap) == TailLengthFrom(7, length, gap)

\* One decoder state: what decodeRLE's locals hold between two loop rounds
DecoderState(raster, offset, hold, calls) ==
  [raster |-> raster, resultOffset |-> offset, holder |-> hold, writes |-> calls]

\* writePixels(result, resultOffset, color, length); resultOffset += length * 4
EmitRun(st, len, color, length) ==
  [st EXCEPT !.raster = WritePixels(st.raster, len, st.resultOffset, color, length),
             !.resultOffset = st.resultOffset + length * 4,
             !.writes = Append(st.writes, <<color, st.resultOffset, length>>)]

\* decodeRLE lines 209-219: a pair read with no holder in the way
FreshPairHighBitFirst(st, len, color, length) ==
  IF length \div 128 = 1
    THEN [st EXCEPT !.holder = <<color, length>>]
    ELSE EmitRun(st, len, color, length + 1)
FreshPair(st, len, color, length) ==
  IF length = SPECIAL_LENGTH_MARKER
    THEN EmitRun(st, len, color, SPECIAL_LENGTH)
  ELSE IF length \div 128 = 1              \* (length & 128) !== 0
    THEN [st EXCEPT !.holder = <<color, length>>]
  ELSE EmitRun(st, len, color, length + 1)

\* decodeRLE lines 193-219: one round of the for loop on the pair (color, length)
DecodePairNoContinue(st, len, color, length) ==
  IF st.holder # <<>>
    THEN LET prevColor == st.holder[1]
             prevLength == st.holder[2]
             cleared == [st EXCEPT !.holder = <<>>]
         IN  IF color = prevColor
               THEN FreshPair(EmitRun(cleared, len, color,
                                      MergedLength(length, prevLength)),
                              len, color, length)
               ELSE FreshPair(EmitRun(cleared, len, prevColor,
                                      HolderFlushLength(prevLength)),
                              len, color, length)
    ELSE FreshPair(st, len, color, length)
DecodePair(st, len, color, length) ==
  IF st.holder # <<>>
    THEN LET prevColor == st.holder[1]
             prevLength == st.holder[2]
             cleared == [st EXCEPT !.holder = <<>>]
         IN  IF color = prevColor
               THEN EmitRun(cleared, len, color, MergedLength(length, prevLength))
               ELSE FreshPair(EmitRun(cleared, len, prevColor,
                                      HolderFlushLength(prevLength)),
                              len, color, length)
    ELSE FreshPair(st, len, color, length)

\* decodeRLE lines 221-235: the holder still pending when the input ends
FlushTail(st, len) ==
  IF st.holder # <<>>
    THEN LET color == st.holder[1]
             length == st.holder[2]
             gap == len - st.resultOffset
             adjustedLength == TailLength(length, gap)
         IN  IF adjustedLength > 0
               THEN [st EXCEPT
                       !.raster = WritePixels(st.raster, len, st.resultOffset,
                                              color, adjustedLength),
                       !.writes = Append(st.writes,
                                         <<color, st.resultOffset, adjustedLength>>)]
               ELSE st
    ELSE st

-----------------------------------------------------------------------------
(* The inputs the decoder is run on                                         *)

MaxLen == 4
\* colour codes and length bytes; any byte may stand at either place of a pair:
\* 97 black, 101 white, 0 unmapped; length bytes 0 and 97/101 plain,
\* 128 and 129 extended, 255 special
RleBytes == {0, 97, 101, 128, 129, 255}
RleInputs == UNION {[1..n -> RleBytes] : n \in 0..MaxLen}
\* <<width, height>>: capacities 0, 1, 3, 130, 200 and 16512 pixels
RleDims == {<<0, 2>>, <<1, 1>>, <<3, 1>>, <<2, 65>>, <<20, 10>>, <<129, 128>>}

CurrentState == DecoderState([runs |-> result, maxIdx |-> maxIdx],
                             resultOffset, holder, writes)

\* decodeRLE lines 188-191: allocation and the loop's start
InitRle ==
  /\ buffer \in RleInputs
  /\ \E d \in RleDims : width = d[1] /\ height = d[2]
  /\ resultLen = width * height * 4
  /\ result = <<>>
  /\ maxIdx = -1
  /\ resultOffset = 0
  /\ holder = <<>>
  /\ i = 1
  /\ writes = <<>>
  /\ pc = "loop"
  /\ IdleBlk /\ IdleNote /\ IdleTag /\ IdleRen /\ IdleAnn /\ IdlePlg /\ IdleView /\ IdleGrp /\ IdleU32 /\ IdlePdf

\* one round of for (let i = 1; i < buffer.length; i += 2)
RleStep ==
  /\ pc = "loop"
  /\ i < Len(buffer)
  /\ LET color == buffer[i]            \* buffer[i - 1], 0-based
         length == buffer[i + 1]       \* buffer[i], 0-based
         st == DecodePair(CurrentState, resultLen, color, length)
     IN  /\ result' = st.raster.runs
         /\ maxIdx' = st.raster.maxIdx
         /\ resultOffset' = st.resultOffset
         /\ holder' = st.holder
         /\ writes' = st.writes
  /\ i' = i + 2
  /\ UNCHANGED <<buffer, width, height, resultLen, pc>>
  /\ UNCHANGED <<blkVars, noteVars, tagVars, renVars, annVars, plgVars, viewVars, grpVars, u32Vars, pdfVars>>

\* the loop has ended: the pending holder is flushed and result returned
RleReturn ==
  /\ pc = "loop"
  /\ ~(i < Len(buffer))
  /\ LET st == FlushTail(CurrentState, resultLen)
     IN  /\ result' = st.raster.runs
         /\ maxIdx' = st.raster.maxIdx
         /\ writes' = st.writes
  /\ pc' = "done"
  /\ UNCHANGED <<buffer, width, height, resultLen, resultOffset, holder, i>>
  /\ UNCHANGED <<blkVars, noteVars, tagVars, renVars, annVars, plgVars, viewVars, grpVars, u32Vars, pdfVars>>

NextRle == RleStep \/ RleReturn

SpecRle == InitRle /\ [][NextRle]_vars

-----------------------------------------------------------------------------
(* Properties of the decoder                                                *)

Capacity == width * height

RECURSIVE RunPixels(_)
RunPixels(runs) ==
  IF runs = <<>> THEN 0
  ELSE (runs[1].to - runs[1].from) + RunPixels(Tail(runs))

\* pixels of the raster that have been written
PixelsWritten == RunPixels(result)

LastWrite == writes[Len(writes)]

\* the loop round about to run reads the pair (PairColor, PairLength)
ReadsPair == pc = "loop" /\ i < Len(buffer)
PairColor == buffer[i]
PairLength == buffer[i + 1]
HolderPending == holder # <<>>

\* C1: for every input (empty, odd-length, truncated, overshooting) and every
\* width, height >= 0 the decoder is either in its loop, which reads only
\* pairs inside the input and ends after at most Len(buffer) \div 2 rounds,
\* or has returned; the buffer it returns has exactly width*height*4 bytes,
\* and no pixel write touches a byte index >= width*height*4.
C1_DecodeBoundsSafe ==
  /\ pc \in {"loop", "done"}
  /\ i % 2 = 1 /\ i <= Len(buffer) + 2
  /\ pc = "done" => ~(i < Len(buffer))
  /\ resultLen = width * height * 4
  /\ maxIdx < width * height * 4
  /\ \A k \in 1..Len(result) :
       0 <= result[k].from /\ result[k].from < result[k].to
                           /\ result[k].to <= Capacity
  /\ PixelsWritten <= Capacity

\* an odd-length input whose runs overshoot a non-empty raster has been decoded
C1_Witness ==
  /\ pc = "done"
  /\ Len(buffer) % 2 = 1
  /\ Capacity > 0
  /\ resultOffset > resultLen
  /\ PixelsWritten = Capacity

\* C2: a pending holder (c, h), h in 128..254, followed by a pair (c, n) of the
\* same colour, n any byte, gives exactly one run of
\* 1 + n + (((h & 127) + 1) << 7) pixels of c; the holder is cleared and the
\* pair is not handled again as a fresh pair.
C2_MergeSameColour ==
  [][(ReadsPair /\ HolderPending /\ PairColor = holder[1])
       => /\ holder[2] \in 128..254
          /\ writes' = Append(writes,
                <<holder[1], resultOffset,
                  1 + PairLength + (((holder[2] % 128) + 1) * 128)>>)
          /\ resultOffset' = resultOffset
                + 4 * (1 + PairLength + (((holder[2] % 128) + 1) * 128))
          /\ holder' = <<>>]_vars

\* the input (c, 129), (c, 255) has been merged into one run of 512 pixels
C2_Witness ==
  /\ Len(buffer) >= 4 /\ i = 5
  /\ buffer[1] = buffer[3] /\ buffer[2] = 129 /\ buffer[4] = 255
  /\ writes = <<<<buffer[1], 0, 512>>>>
  /\ holder = <<>>

\* C3: a pending holder (c, h) followed by a pair (d, n) of another colour:
\* first ((h & 127) + 1) << 7 pixels of c, then the pair (d, n) as with an
\* empty holder: a run of n + 1, a run of 16384 for n = 255, or a new holder;
\* the pixels of c lie before those of d.
C3_FlushThenFresh ==
  [][(ReadsPair /\ HolderPending /\ PairColor # holder[1])
       => LET flush == ((holder[2] % 128) + 1) * 128
              flushed == Append(writes, <<holder[1], resultOffset, flush>>)
              after == resultOffset + 4 * flush
          IN  IF PairLength = 255
                THEN /\ writes' = Append(flushed, <<PairColor, after, 16384>>)
                     /\ resultOffset' = after + 4 * 16384
                     /\ holder' = <<>>
              ELSE IF PairLength >= 128
                THEN /\ writes' = flushed
                     /\ resultOffset' = after
                     /\ holder' = <<PairColor, PairLength>>
              ELSE   /\ writes' = Append(flushed, <<PairColor, after, PairLength + 1>>)
                     /\ resultOffset' = after + 4 * (PairLength + 1)
                     /\ holder' = <<>>]_vars

\* (black, 128), (white, 0) decoded into a raster of at least 129 pixels:
\* 128 black pixels, then one white pixel
C3_Witness ==
  /\ Len(buffer) = 4 /\ pc = "done" /\ Capacity >= 129
  /\ buffer = <<97, 128, 101, 0>>
  /\ writes = <<<<97, 0, 128>>, <<101, 512, 1>>>>
  /\ result = <<[rgba |-> <<0, 0, 0, 255>>, from |-> 0, to |-> 128],
                [rgba |-> <<255, 255, 255, 255>>, from |-> 128, to |-> 129]>>

\* C4 (as claimed): every pair with length byte 255 gives a run of exactly
\* 16384 pixels of its colour in every holder state; a pending holder is
\* flushed first.
C4_Special255Always ==
  [][(ReadsPair /\ PairLength = 255)
       => /\ Len(writes') = Len(writes) + (IF HolderPending THEN 2 ELSE 1)
          /\ writes'[Len(writes')][1] = PairColor
          /\ writes'[Len(writes')][3] = 16384
          /\ HolderPending =>
               writes'[Len(writes) + 1] =
                 <<holder[1], resultOffset, ((holder[2] % 128) + 1) * 128>>]_vars

\* C4 (amended): a pair with length byte 255 gives a run of exactly 16384
\* pixels of its colour when no holder is pending or the pending holder has
\* another colour (that holder is flushed first); when the pending holder has
\* the pair's colour the pair is merged with it into one run of
\* 256 + (((h & 127) + 1) << 7) pixels and no 16384-pixel run is written.
C4_Special255UnlessMerged ==
  [][(ReadsPair /\ PairLength = 255)
       => IF HolderPending /\ PairColor = holder[1]
            THEN /\ writes' = Append(writes,
                       <<PairColor, resultOffset,
                         256 + (((holder[2] % 128) + 1) * 128)>>)
                 /\ holder' = <<>>
          ELSE IF HolderPending
            THEN LET flush == ((holder[2] % 128) + 1) * 128
                 IN  /\ writes' = Append(Append(writes,
                                           <<holder[1], resultOffset, flush>>),
                                         <<PairColor, resultOffset + 4 * flush, 16384>>)
                     /\ holder' = <<>>
          ELSE   /\ writes' = Append(writes, <<PairColor, resultOffset, 16384>>)
                 /\ holder' = <<>>]_vars

\* (black, 128), (white, 255) into a raster of 16512 pixels: the holder's 128
\* pixels, then all 16384 pixels of the special run
C4_Witness ==
  /\ buffer = <<97, 128, 101, 255>> /\ pc = "done" /\ Capacity = 16512
  /\ writes = <<<<97, 0, 128>>, <<101, 512, 16384>>>>
  /\ result[2] = [rgba |-> <<255, 255, 255, 255>>, from |-> 128, to |-> 16512]

\* candidate lengths of the tail flush of a holder with length byte h
TailCandidates(h) == {((h % 128) + 1) * Pow2(k) : k \in 0..7}
SetMax(S) == CHOOSE x \in S : \A y \in S : y <= x

\* C5: the input ends with a holder (c, h) pending: the decoder writes L pixels
\* of c, L the largest candidate ((h & 127) + 1) << k, k = 7..0, that is <= the
\* number of pixels still unwritten; when no candidate fits (also after an
\* overshoot) nothing is written for the holder.
C5_TailLargestFitting ==
  [][(pc = "loop" /\ pc' = "done" /\ HolderPending)
       => LET unwritten == Capacity - PixelsWritten
              fitting == {c \in TailCandidates(holder[2]) : c <= unwritten}
          IN  IF fitting = {}
                THEN writes' = writes /\ result' = result
                ELSE /\ writes' = Append(writes,
                           <<holder[1], resultOffset, SetMax(fitting)>>)
                     /\ RunPixels(result') = PixelsWritten + SetMax(fitting)]_vars

\* a holder (c, 129) ends the input with 199 pixels unwritten: candidates
\* 256, 128, ..., 2, and 128 pixels are written
C5_Witness ==
  /\ pc = "done" /\ HolderPending /\ holder[2] = 129
  /\ Capacity = 200 /\ resultOffset = 4
  /\ LastWrite = <<holder[1], 4, 128>>
  /\ PixelsWritten = 129

\* the holder pending at the end of the input was flushed: the tail write is
\* the only write that does not advance resultOffset
TailFlushed ==
  /\ pc = "done" /\ HolderPending
  /\ writes # <<>> /\ LastWrite[2] = resultOffset

\* C6 (as claimed): when the holder pending at the end of the input is
\* flushed, the flush fills the raster: width*height pixels are written.
C6_TailFillsExactly == TailFlushed => PixelsWritten = Capacity

\* C6 (amended): when the holder pending at the end of the input is flushed,
\* the flush never exceeds the remaining capacity, and it fills the raster
\* exactly if and only if the number of pixels unwritten before it is
\* itself one of the candidates ((h & 127) + 1) << k, k = 0..7.
C6_TailWithinCapacity ==
  TailFlushed =>
    /\ LastWrite[2] + 4 * LastWrite[3] <= resultLen
    /\ PixelsWritten <= Capacity
    /\ (PixelsWritten = Capacity)
         <=> (Capacity - resultOffset \div 4) \in TailCandidates(holder[2])

\* a holder (c, 129) flushed into a raster of 3 pixels: 2 written, 1 left
C6_Witness ==
  /\ TailFlushed /\ holder[2] = 129 /\ Capacity = 3
  /\ resultOffset = 0 /\ LastWrite[3] = 2 /\ PixelsWritten = 2

-----------------------------------------------------------------------------
(* parser.ts and mark-parser.ts: reading a length-prefixed block            *)

ADDRESS_SIZE == 4
LENGTH_FIELD_SIZE == 4

\* Indices and lengths at or beyond Huge are kept as Huge.  Every buffer of
\* the model is far shorter, so an index >= Huge behaves as any index past
\* the end of the buffer does.
Huge == 1073741824

\* A 32-bit result of readUint32LE: the number sign * (hi * 65536 + lo)
Num32(neg, hi, lo) == [neg |-> neg, hi |-> hi, lo |-> lo]

\* the number as an index: exact below Huge, else kept at Huge (or -Huge)
NumAsIndex(n) ==
  LET mag == IF n.hi >= 16384 THEN Huge ELSE n.hi * 65536 + n.lo
  IN  IF n.neg THEN 0 - mag ELSE mag

\* data[offset] as an operand of | and <<: a byte, or undefined -> 0 outside
ByteOrZero(data, offset) ==
  IF offset >= 0 /\ offset < Len(data) THEN data[offset + 1] ELSE 0

\* parser.ts readUint32LE: (b0 | b1 << 8 | b2 << 16 | b3 << 24) >>> 0
ReadUint32LE(data, offset) ==
  LET b0 == ByteOrZero(data, offset)
      b1 == ByteOrZero(data, offset + 1)
      b2 == ByteOrZero(data, offset + 2)
      b3 == ByteOrZero(data, offset + 3)
  IN  Num32(FALSE, b3 * 256 + b2, b1 * 256 + b0)

\* mark-parser.ts readUint32LE: b0 | (b1 << 8) | (b2 << 16) | (b3 << 24) >>> 0.
\* >>> binds tighter than |, so only b3 << 24 is made unsigned, and the | that
\* follow turn the whole back into a signed 32-bit integer: with b3 >= 128
\* the result is the unsigned value minus 2^32.
MarkReadUint32LE(data, offset) ==
  LET b0 == ByteOrZero(data, offset)
      b1 == ByteOrZero(data, offset + 1)
      b2 == ByteOrZero(data, offset + 2)
      b3 == ByteOrZero(data, offset + 3)
      hi == b3 * 256 + b2
      lo == b1 * 256 + b0
  IN  IF b3 < 128 THEN Num32(FALSE, hi, lo)
      ELSE IF lo = 0 THEN Num32(TRUE, 65536 - hi, 0)
      ELSE Num32(TRUE, 65535 - hi, 65536 - lo)

\* begin + len as an index, kept within -Huge..Huge
AddIndex(a, b) == Max(0 - Huge, Min(Huge, a + b))

\* TypedArray.prototype.subarray / slice (begin, end): a negative index counts
\* from the end, both are clamped to 0..length, an empty range when end <= begin
RelativeIndex(k, len) == IF k < 0 THEN Max(len + k, 0) ELSE Min(k, len)
Subarray(data, begin, end) ==
  LET from == RelativeIndex(begin, Len(data))
      to == RelativeIndex(end, Len(data))
  IN  IF to <= from THEN <<>> ELSE SubSeq(data, from + 1, to)

Null == [kind |-> "null"]
Bytes(b) == [kind |-> "bytes", bytes |-> b]
Text(t) == [kind |-> "text", text |-> t]

\* parser.ts getContentAtAddress(buffer, address)
GetContentAtAddressFromAddress(buf, address) ==
  IF address = 0 THEN Null
  ELSE LET blockLength == NumAsIndex(ReadUint32LE(buf, address))
       IN  Bytes(Subarray(buf, address,
                          AddIndex(address + LENGTH_FIELD_SIZE, blockLength)))
GetContentAtAddress(buf, address) ==
  IF address = 0 THEN Null
  ELSE LET blockLength == NumAsIndex(ReadUint32LE(buf, address))
       IN  Bytes(Subarray(buf, address + LENGTH_FIELD_SIZE,
                          AddIndex(address + LENGTH_FIELD_SIZE, blockLength)))

\* mark-parser.ts readBinaryBlock(buffer, address)
ReadBinaryBlock(buf, address) ==
  IF address = 0 THEN Null
  ELSE LET length == NumAsIndex(MarkReadUint32LE(buf, address))
       IN  Bytes(Subarray(buf, address + LENGTH_FIELD_SIZE,
                          AddIndex(address + LENGTH_FIELD_SIZE, length)))

\* TextDecoder("utf-8").decode(bytes), as a sequence of code points, for the
\* bytes the model's buffers hold: ASCII, two-byte sequences (lead 0xC2..0xDF
\* and one continuation byte 0x80..0xBF), and bytes that can start no
\* sequence here and decode to U+FFFD each.  No buffer of the model holds a
\* three- or four-byte lead (0xE0..0xF4), so none starts with a byte order mark.
REPLACEMENT == 65533
\* A run of ASCII bytes decodes to itself, so the decoder goes from one
\* non-ASCII byte to the next.
RECURSIVE Utf8DecodeFrom(_, _)
Utf8DecodeFrom(b, k) ==
  LET nonAscii == {j \in k..Len(b) : b[j] >= 128}
  IN  IF nonAscii = {} THEN SubSeq(b, k, Len(b))
      ELSE LET j == CHOOSE x \in nonAscii : \A y \in nonAscii : x <= y
           IN  SubSeq(b, k, j - 1) \o
               (IF b[j] >= 194 /\ b[j] <= 223 /\ j < Len(b)
                   /\ b[j + 1] >= 128 /\ b[j + 1] <= 191
                  THEN <<(b[j] - 192) * 64 + (b[j + 1] - 128)>>
                       \o Utf8DecodeFrom(b, j + 2)
                  ELSE <<REPLACEMENT>> \o Utf8DecodeFrom(b, j + 1))

Utf8Decode(b) == Utf8DecodeFrom(b, 1)
uint8ArrayToString(arr) == Utf8Decode(arr)

\* mark-parser.ts readBlock(buffer, address): the block as text, '' for address 0
ReadBlock(buf, address) ==
  IF address = 0 THEN Text(<<>>)
  ELSE LET length == NumAsIndex(MarkReadUint32LE(buf, address))
       IN  Text(Utf8Decode(Subarray(buf, address + LENGTH_FIELD_SIZE,
                                    AddIndex(address + LENGTH_FIELD_SIZE, length))))

\* the reader named reader called on (buf, address)
CallReader(reader, buf, address) ==
  CASE reader = "getContentAtAddress" -> GetContentAtAddress(buf, address)
    [] reader = "readBinaryBlock"     -> ReadBinaryBlock(buf, address)
    [] reader = "readBlock"           -> ReadBlock(buf, address)

-----------------------------------------------------------------------------
(* parser.ts: strings, objects and numbers                                  *)

\* A string is the sequence of its code points.  The string literals of parser.ts:
S_SIGNATURE_PREFIX == <<110, 111, 116, 101, 83, 78, 95, 70, 73, 76, 69, 95, 86, 69, 82, 95>>   \* "noteSN_FILE_VER_"
S_FILE == <<70, 73, 76, 69>>   \* "FILE"
S_FEATURE == <<70, 69, 65, 84, 85, 82, 69>>   \* "FEATURE"
S_PAGE == <<80, 65, 71, 69>>   \* "PAGE"
S_UNDERSCORE == <<95>>   \* "_"
S_APPLY_EQUIPMENT == <<65, 80, 80, 76, 89, 95, 69, 81, 85, 73, 80, 77, 69, 78, 84>>   \* "APPLY_EQUIPMENT"
S_N5 == <<78, 53>>   \* "N5"
S_unknown == <<117, 110, 107, 110, 111, 119, 110>>   \* "unknown"
S_LAYERSEQ == <<76, 65, 89, 69, 82, 83, 69, 81>>   \* "LAYERSEQ"
S_MAINLAYER == <<77, 65, 73, 78, 76, 65, 89, 69, 82>>   \* "MAINLAYER"
S_LAYER1 == <<76, 65, 89, 69, 82, 49>>   \* "LAYER1"
S_LAYER2 == <<76, 65, 89, 69, 82, 50>>   \* "LAYER2"
S_LAYER3 == <<76, 65, 89, 69, 82, 51>>   \* "LAYER3"
S_BGLAYER == <<66, 71, 76, 65, 89, 69, 82>>   \* "BGLAYER"
S_LAYERBITMAP == <<76, 65, 89, 69, 82, 66, 73, 84, 77, 65, 80>>   \* "LAYERBITMAP"
S_LAYERPROTOCOL == <<76, 65, 89, 69, 82, 80, 82, 79, 84, 79, 67, 79, 76>>   \* "LAYERPROTOCOL"
S_RATTA_RLE == <<82, 65, 84, 84, 65, 95, 82, 76, 69>>   \* "RATTA_RLE"
S_ZERO == <<48>>   \* "0"

LT == 60      \* "<"
GT == 62      \* ">"
COLON == 58   \* ":"
COMMA == 44   \* ","

IsDigit(c) == c >= 48 /\ c <= 57
StartsWith(str, prefix) ==
  Len(str) >= Len(prefix) /\ SubSeq(str, 1, Len(prefix)) = prefix

\* str.indexOf(needle): 0-based, -1 when absent
IndexOf(str, needle) ==
  LET hits == {k \in 1..(Len(str) - Len(needle) + 1) :
                 SubSeq(str, k, k + Len(needle) - 1) = needle}
  IN  IF hits = {} THEN -1
      ELSE (CHOOSE k \in hits : \A j \in hits : k <= j) - 1

\* A JavaScript number that may be NaN
NaN == [nan |-> TRUE, val |-> 0]
Number(v) == [nan |-> FALSE, val |-> v]

\* StrWhiteSpaceChar, as far as it is one code point of the texts read here
IsWhiteSpace(c) == c \in {9, 10, 11, 12, 13, 32, 160, 65279}

\* the value of the longest run of decimal digits of str from position k on,
\* kept at Huge from Huge on
RECURSIVE DigitsValue(_, _, _)
DigitsValue(str, k, acc) ==
  IF k > Len(str) \/ ~IsDigit(str[k]) THEN acc
  ELSE DigitsValue(str, k + 1,
                   IF acc >= Huge \div 10 THEN Huge ELSE acc * 10 + (str[k] - 48))

\* parseInt(str) for the texts read here: leading white space, an optional
\* sign, then the longest run of decimal digits; NaN when there is no digit.
\* (No text of the model's files starts a number with 0x.)
RECURSIVE SkipWhiteSpace(_, _)
SkipWhiteSpace(str, k) ==
  IF k <= Len(str) /\ IsWhiteSpace(str[k]) THEN SkipWhiteSpace(str, k + 1) ELSE k

parseInt(str) ==
  LET k == SkipWhiteSpace(str, 1)
      signed == k <= Len(str) /\ str[k] \in {43, 45}
      d == IF signed THEN k + 1 ELSE k
  IN  IF d > Len(str) \/ ~IsDigit(str[d]) THEN NaN
      ELSE IF signed /\ str[k] = 45 THEN Number(0 - DigitsValue(str, d, 0))
      ELSE Number(DigitsValue(str, d, 0))

\* A value of a tag: a string, or the array a repeated key is promoted to
Scalar(str) == [arr |-> FALSE, items |-> <<str>>]
Array(items) == [arr |-> TRUE, items |-> items]

\* Array.prototype.join(","), which String(array) is
RECURSIVE Join(_)
Join(items) ==
  IF items = <<>> THEN <<>>
  ELSE IF Len(items) = 1 THEN items[1]
  ELSE items[1] \o <<COMMA>> \o Join(Tail(items))

\* String(value), as parseInt applies it to its argument
JsString(v) == IF v.arr THEN Join(v.items) ELSE v.items[1]

\* str.split(","): the pieces between the commas, empty pieces kept
RECURSIVE Split(_)
Split(str) ==
  LET k == IndexOf(str, <<COMMA>>)
  IN  IF k = -1 THEN <<str>>
      ELSE <<SubSeq(str, 1, k)>> \o Split(SubSeq(str, k + 2, Len(str)))

\* A JavaScript object: its own properties <<key, val>> in property order:
\* array-index keys ("0", "7", "12": canonical decimal, below 2^32 - 1) first,
\* in ascending numeric order, then the other keys in insertion order.
\* (No key of the model's .note files names a property of Object.prototype.)
MAX_INDEX_DIGITS == <<52, 50, 57, 52, 57, 54, 55, 50, 57, 52>>   \* "4294967294"

RECURSIVE DigitsLeq(_, _)
DigitsLeq(a, b) ==     \* a <= b for digit strings of equal length
  IF a = <<>> THEN TRUE
  ELSE IF a[1] # b[1] THEN a[1] < b[1]
  ELSE DigitsLeq(Tail(a), Tail(b))

IsArrayIndex(key) ==
  /\ Len(key) >= 1
  /\ \A k \in 1..Len(key) : IsDigit(key[k])
  /\ Len(key) = 1 \/ key[1] # 48
  /\ Len(key) < 10 \/ (Len(key) = 10 /\ DigitsLeq(key, MAX_INDEX_DIGITS))

\* a < b for two array-index keys
IndexLess(a, b) ==
  Len(a) < Len(b) \/ (Len(a) = Len(b) /\ a # b /\ DigitsLeq(a, b))

Has(obj, key) == \E k \in 1..Len(obj) : obj[k].key = key
Get(obj, key) == obj[CHOOSE k \in 1..Len(obj) : obj[k].key = key].val

\* The methods every object inherits from Object.prototype: `key in obj` is
\* true for them and obj[key] is a function, whatever obj's own properties.
S_constructor == <<99, 111, 110, 115, 116, 114, 117, 99, 116, 111, 114>>   \* "constructor"
S_toString == <<116, 111, 83, 116, 114, 105, 110, 103>>   \* "toString"
S_valueOf == <<118, 97, 108, 117, 101, 79, 102>>   \* "valueOf"
S_hasOwnProperty == <<104, 97, 115, 79, 119, 110, 80, 114, 111, 112, 101, 114, 116, 121>>   \* "hasOwnProperty"
InheritedKeys == {S_constructor, S_toString, S_valueOf, S_hasOwnProperty}
\* an inherited method as an array element: not a string, no code points
FunctionValue == <<-1>>
\* key in obj
In(obj, key) == Has(obj, key) \/ key \in InheritedKeys
\* obj[key] where key in obj
Lookup(obj, key) ==
  IF Has(obj, key) THEN Get(obj, key)
  ELSE [arr |-> FALSE, items |-> <<FunctionValue>>]
Keys(obj) == [k \in 1..Len(obj) |-> obj[k].key]

\* obj[key] = val
PutAppendOnly(obj, key, val) ==
  IF Has(obj, key)
    THEN [k \in 1..Len(obj) |-> IF obj[k].key = key
                                  THEN [key |-> key, val |-> val] ELSE obj[k]]
    ELSE Append(obj, [key |-> key, val |-> val])
Put(obj, key, val) ==
  IF Has(obj, key)
    THEN [k \in 1..Len(obj) |-> IF obj[k].key = key
                                  THEN [key |-> key, val |-> val] ELSE obj[k]]
  ELSE IF IsArrayIndex(key)
    THEN LET before == {k \in 1..Len(obj) :
                          IsArrayIndex(obj[k].key) /\ IndexLess(obj[k].key, key)}
             n == Cardinality(before)
         IN  SubSeq(obj, 1, n) \o <<[key |-> key, val |-> val]>>
               \o SubSeq(obj, n + 1, Len(obj))
  ELSE Append(obj, [key |-> key, val |-> val])

-----------------------------------------------------------------------------
(* parser.ts: extractKeyValue, parseKeyValue, extractNestedKeyValue         *)

\* [^:<>]
IsTagChar(c) == c \notin {COLON, LT, GT}

\* the end (exclusive) of the longest run of [^:<>] that starts at position k
RunEnd(text, k) ==
  LET stops == {j \in k..Len(text) : ~IsTagChar(text[j])}
  IN  IF stops = {} THEN Len(text) + 1
      ELSE CHOOSE j \in stops : \A x \in stops : j <= x

\* /<([^:<>]+):([^:<>]+)>/ tried at position k.  Both classes exclude the
\* characters that must follow them, so the longest runs are the only match.
MatchAt(text, k) ==
  LET keyEnd == RunEnd(text, k + 1)
      valEnd == RunEnd(text, keyEnd + 1)
  IN  IF /\ k <= Len(text) /\ text[k] = LT
         /\ keyEnd > k + 1
         /\ keyEnd <= Len(text) /\ text[keyEnd] = COLON
         /\ valEnd > keyEnd + 1
         /\ valEnd <= Len(text) /\ text[valEnd] = GT
        THEN [ok |-> TRUE, key |-> SubSeq(text, k + 1, keyEnd - 1),
              value |-> SubSeq(text, keyEnd + 1, valEnd - 1), next |-> valEnd + 1]
        ELSE [ok |-> FALSE]

\* [...content.matchAll(pattern)]: the matches from left to right, each
\* search starting where the last match ended
RECURSIVE MatchAll(_, _)
MatchAll(text, k) ==
  LET starts == {j \in k..Len(text) : text[j] = LT /\ MatchAt(text, j).ok}
  IN  IF starts = {} THEN <<>>
      ELSE LET j == CHOOSE x \in starts : \A y \in starts : x <= y
               mt == MatchAt(text, j)
           IN  <<[key |-> mt.key, value |-> mt.value]>> \o MatchAll(text, mt.next)

\* the loop body of extractKeyValue: one pair folded into data
FoldPairKeepLast(data, key, value) == Put(data, key, Scalar(value))
FoldPair(data, key, value) ==
  IF In(data, key)
    THEN LET existing == Lookup(data, key)
         IN  IF existing.arr
               THEN Put(data, key, Array(Append(existing.items, value)))
               ELSE Put(data, key, Array(<<existing.items[1], value>>))
    ELSE Put(data, key, Scalar(value))

RECURSIVE FoldPairs(_, _)
FoldPairs(data, pairs) ==
  IF pairs = <<>> THEN data
  ELSE FoldPairs(FoldPair(data, pairs[1].key, pairs[1].value), Tail(pairs))

extractKeyValue(content) == FoldPairs(<<>>, MatchAll(content, 1))

\* getContentAtAddress with the address a number: NaN is not 0, every byte
\* read at offset NaN is undefined, and subarray(NaN, NaN) is empty
GetContentAtNumber(buf, address) ==
  IF address.nan THEN Bytes(<<>>) ELSE GetContentAtAddress(buf, address.val)

parseKeyValue(buf, address) ==
  LET content == GetContentAtNumber(buf, address)
  IN  IF content = Null THEN <<>>
      ELSE extractKeyValue(uint8ArrayToString(content.bytes))

\* the first prefix of prefixes that key starts with, <<>> when there is none
RECURSIVE FirstPrefix(_, _)
FirstPrefix(key, prefixes) ==
  IF prefixes = <<>> THEN <<>>
  ELSE IF StartsWith(key, prefixes[1]) THEN <<prefixes[1]>>
  ELSE FirstPrefix(key, Tail(prefixes))

\* typeof value === "string"
IsStringEvenIfArray(value) == TRUE
IsString(value) == ~value.arr

\* the loop body of extractNestedKeyValue for one entry of record
NestEntry(data, key, value, delimiter, prefixes) ==
  IF ~IsString(value) THEN data               \* continue
  ELSE LET idx == IndexOf(key, delimiter)
           pre == FirstPrefix(key, prefixes)
           found == idx > -1 \/ pre # <<>>
           main == IF idx > -1 THEN SubSeq(key, 1, idx) ELSE pre[1]
           sub == IF idx > -1 THEN SubSeq(key, idx + 2, Len(key))
                  ELSE SubSeq(key, Len(pre[1]) + 1, Len(key))
       IN  IF found /\ main # <<>> /\ sub # <<>>
             THEN IF Has(data, main)
                    THEN Put(data, main, Put(Get(data, main), sub, value.items[1]))
                  ELSE IF In(data, main)     \* data[main] is an inherited method:
                    THEN data                \* the property is set on that function
                    ELSE Put(data, main, Put(<<>>, sub, value.items[1]))
             ELSE data

RECURSIVE NestEntries(_, _, _, _)
NestEntries(data, entries, delimiter, prefixes) ==
  IF entries = <<>> THEN data
  ELSE NestEntries(NestEntry(data, entries[1].key, entries[1].val,
                             delimiter, prefixes),
                   Tail(entries), delimiter, prefixes)

extractNestedKeyValue(record, delimiter, prefixes) ==
  NestEntries(<<>>, record, delimiter, prefixes)

-----------------------------------------------------------------------------
(* parser.ts: parseSupernoteFile                                            *)

DEFAULT_HEADER_ADDRESS == 24
SIGNATURE_LENGTH == 24
DEFAULT_PAGE_WIDTH == 1404
DEFAULT_PAGE_HEIGHT == 1872
N5_PAGE_WIDTH == 1920
N5_PAGE_HEIGHT == 2560

LayerNames == <<S_MAINLAYER, S_LAYER1, S_LAYER2, S_LAYER3, S_BGLAYER>>

\* signatureContent.match(/^noteSN_FILE_VER_(\d{8})/)
SignatureMatchSevenDigits(signatureContent) ==
  /\ StartsWith(signatureContent, S_SIGNATURE_PREFIX)
  /\ Len(signatureContent) >= Len(S_SIGNATURE_PREFIX) + 8
  /\ \A k \in 1..7 : IsDigit(signatureContent[Len(S_SIGNATURE_PREFIX) + k])
SignatureMatch(signatureContent) ==
  /\ StartsWith(signatureContent, S_SIGNATURE_PREFIX)
  /\ Len(signatureContent) >= Len(S_SIGNATURE_PREFIX) + 8
  /\ \A k \in 1..8 : IsDigit(signatureContent[Len(S_SIGNATURE_PREFIX) + k])

\* obj[key] || fallback, for tag values (every tag value is truthy)
GetOr(obj, key, fallback) == IF Has(obj, key) THEN Get(obj, key) ELSE fallback

\* (a, b) => parseInt(a) - parseInt(b), a NaN result counting as 0
\* a < b as strings, code unit by code unit
RECURSIVE StringLess(_, _)
StringLess(a, b) ==
  IF b = <<>> THEN FALSE
  ELSE IF a = <<>> THEN TRUE
  ELSE IF a[1] # b[1] THEN a[1] < b[1]
  ELSE StringLess(Tail(a), Tail(b))

ComparePageIndicesAsStrings(a, b) ==
  IF StringLess(a, b) THEN -1 ELSE IF StringLess(b, a) THEN 1 ELSE 0
ComparePageIndices(a, b) ==
  LET x == parseInt(a)
      y == parseInt(b)
  IN  IF x.nan \/ y.nan THEN 0 ELSE x.val - y.val

\* Array.prototype.sort with that comparator: a stable sort
RECURSIVE SortPageIndices(_)
SortPageIndices(keys) ==
  IF keys = <<>> THEN <<>>
  ELSE LET n == Len(keys)
           sorted == SortPageIndices(SubSeq(keys, 1, n - 1))
           x == keys[n]
           notAfter == {j \in 1..Len(sorted) : ComparePageIndices(sorted[j], x) <= 0}
           at == IF notAfter = {} THEN 0
                 ELSE CHOOSE j \in notAfter : \A q \in notAfter : q <= j
       IN  SubSeq(sorted, 1, at) \o <<x>> \o SubSeq(sorted, at + 1, Len(sorted))

\* lines 131-145: the record of the layer layerName of a page
ParseLayerReadsAddressZero(buf, pageData, layerName) ==
  LET layerAddress == parseInt(JsString(GetOr(pageData, layerName, Scalar(S_ZERO))))
      layerData == parseKeyValue(buf, layerAddress)
      bitmapAddress ==
        parseInt(JsString(GetOr(layerData, S_LAYERBITMAP, Scalar(S_ZERO))))
  IN  [name |-> layerName,
       protocol |-> GetOr(layerData, S_LAYERPROTOCOL, Scalar(S_RATTA_RLE)),
       bitmapData |-> GetContentAtNumber(buf, bitmapAddress)]
ParseLayer(buf, pageData, layerName) ==
  LET layerAddress == parseInt(JsString(GetOr(pageData, layerName, Scalar(S_ZERO))))
  IN  IF ~layerAddress.nan /\ layerAddress.val = 0
        THEN [name |-> layerName, protocol |-> Scalar(<<>>), bitmapData |-> Null]
        ELSE LET layerData == parseKeyValue(buf, layerAddress)
                 bitmapAddress ==
                   parseInt(JsString(GetOr(layerData, S_LAYERBITMAP, Scalar(S_ZERO))))
             IN  [name |-> layerName,
                  protocol |-> GetOr(layerData, S_LAYERPROTOCOL, Scalar(S_RATTA_RLE)),
                  bitmapData |-> GetContentAtNumber(buf, bitmapAddress)]

\* lines 125-147: the page of index idx; .split of an array value throws
ParsePage(buf, pageAddresses, idx) ==
  LET pageAddress == parseInt(Get(pageAddresses, idx))
      pageData == parseKeyValue(buf, pageAddress)
      seq == GetOr(pageData, S_LAYERSEQ, Scalar(S_MAINLAYER))
  IN  IF seq.arr THEN [ok |-> FALSE]
      ELSE [ok |-> TRUE,
            page |-> [layers |-> [k \in 1..Len(LayerNames) |->
                                    ParseLayer(buf, pageData, LayerNames[k])],
                      layerSequence |-> Split(seq.items[1])]]

ParseError(name) == [kind |-> "error", error |-> name]

parseSupernoteFile(buf) ==
  LET signatureContent == uint8ArrayToString(Subarray(buf, 0, SIGNATURE_LENGTH))
  IN  IF ~SignatureMatch(signatureContent) THEN ParseError("InvalidSignature")
      ELSE
        LET version == parseInt(SubSeq(signatureContent,
                                       Len(S_SIGNATURE_PREFIX) + 1,
                                       Len(S_SIGNATURE_PREFIX) + 8))
            footerAddressChunk == Subarray(buf, Len(buf) - ADDRESS_SIZE, Len(buf))
            footerAddress == Number(NumAsIndex(ReadUint32LE(footerAddressChunk, 0)))
            footerData == parseKeyValue(buf, footerAddress)
            footer == extractNestedKeyValue(footerData, S_UNDERSCORE, <<S_PAGE>>)
            headerAddress ==
              IF Has(footer, S_FILE) /\ Has(Get(footer, S_FILE), S_FEATURE)
                THEN parseInt(Get(Get(footer, S_FILE), S_FEATURE))
                ELSE Number(DEFAULT_HEADER_ADDRESS)
            headerData == parseKeyValue(buf, headerAddress)
            equipment == GetOr(headerData, S_APPLY_EQUIPMENT, Scalar(S_unknown))
            isN5 == equipment = Scalar(S_N5)
            pageAddresses == IF Has(footer, S_PAGE) THEN Get(footer, S_PAGE) ELSE <<>>
            pageIndices == SortPageIndices(Keys(pageAddresses))
            parsed == [k \in 1..Len(pageIndices) |->
                         ParsePage(buf, pageAddresses, pageIndices[k])]
        IN  IF \E k \in 1..Len(parsed) : ~parsed[k].ok THEN ParseError("TypeError")
            ELSE [kind |-> "document",
                  signature |-> signatureContent,
                  version |-> version.val,
                  pageWidth |-> IF isN5 THEN N5_PAGE_WIDTH ELSE DEFAULT_PAGE_WIDTH,
                  pageHeight |-> IF isN5 THEN N5_PAGE_HEIGHT ELSE DEFAULT_PAGE_HEIGHT,
                  equipment |-> equipment,
                  pages |-> [k \in 1..Len(parsed) |-> parsed[k].page]]

-----------------------------------------------------------------------------
(* The buffers and addresses the readers are called on                      *)

Readers == {"getContentAtAddress", "readBinaryBlock", "readBlock"}

\* n as the four bytes of a little-endian length field (n < 2^31)
LE4(n) == <<n % 256, (n \div 256) % 256, (n \div 65536) % 256,
            (n \div 16777216) % 256>>

\* content of n printable ASCII bytes
ContentOf(n) == [k \in 1..n |-> 33 + ((k * 7) % 90)]

LargeLen == 300
HugeLen == 66000
BlkPrefixes == {<<>>, <<60>>, <<60, 0, 0, 0, 62>>}
BlkContentLens == {0, 1, 2, LargeLen, HugeLen}
BlkSuffixes == {<<>>, <<1, 0, 0, 0, 65>>}

\* arbitrary short buffers, for addresses that reach past the end
MaxBuf == 6
BlkBytes == {0, 2, 200}
BlkBuffers == UNION {[1..n -> BlkBytes] : n \in 0..MaxBuf}

\* a buffer built as prefix + LE4(len(content)) + content + suffix, read at
\* the address of its length field
InitBlkBuilt ==
  /\ \E p \in BlkPrefixes, n \in BlkContentLens, sfx \in BlkSuffixes :
       /\ blkParts = [built |-> TRUE, prefix |-> p, content |-> ContentOf(n),
                      suffix |-> sfx]
       /\ blkBuffer = p \o LE4(n) \o ContentOf(n) \o sfx
       /\ blkAddress = Len(p)
  /\ blkReader \in Readers
  /\ blkOut = [kind |-> "pending"]

\* any short buffer, read at any address up to one past its last byte
InitBlkAny ==
  /\ blkBuffer \in BlkBuffers
  /\ blkAddress \in 0..(MaxBuf + 1)
  /\ blkParts = [built |-> FALSE]
  /\ blkReader \in Readers
  /\ blkOut = [kind |-> "pending"]

InitBlk == (InitBlkBuilt \/ InitBlkAny) /\ IdleRle /\ IdleNote /\ IdleTag /\ IdleRen /\ IdleAnn /\ IdlePlg /\ IdleView /\ IdleGrp /\ IdleU32 /\ IdlePdf

\* the call of the reader
ReadBlockCall ==
  /\ blkReader \in Readers
  /\ blkOut.kind = "pending"
  /\ blkOut' = CallReader(blkReader, blkBuffer, blkAddress)
  /\ UNCHANGED <<blkBuffer, blkAddress, blkReader, blkParts>>
  /\ UNCHANGED <<rleVars, noteVars, tagVars, renVars, annVars, plgVars, viewVars, grpVars, u32Vars, pdfVars>>

NextBlk == ReadBlockCall

SpecBlk == InitBlk /\ [][NextBlk]_vars

-----------------------------------------------------------------------------
(* Properties of the block readers                                          *)

BlkReturned == blkOut.kind # "pending"

\* what a reader returns for a block whose bytes are content: the bytes, or
\* for readBlock the text (all contents of the model are ASCII, one character
\* per byte)
Returned(reader, content) ==
  IF reader = "readBlock" THEN Text(content) ELSE Bytes(content)

BlockInside(buf, address) ==
  /\ address + LENGTH_FIELD_SIZE <= Len(buf)
  /\ AddIndex(address + LENGTH_FIELD_SIZE,
              NumAsIndex(ReadUint32LE(buf, address))) <= Len(buf)

\* C8: a reader called with an address # 0 whose length field or content
\* range reaches past the end of the buffer yields an OutOfBounds error; it
\* never returns a shortened or empty byte range for such an address.
C8_OutOfBoundsIsError ==
  (BlkReturned /\ blkAddress # 0 /\ ~BlockInside(blkBuffer, blkAddress))
    => blkOut.kind = "error"

-----------------------------------------------------------------------------
(* The files parseSupernoteFile is run on                                   *)

\* n >= 0 in decimal
RECURSIVE Dec(_)
Dec(n) == IF n < 10 THEN <<48 + n>> ELSE Dec(n \div 10) \o <<48 + (n % 10)>>

Tag(key, value) == <<LT>> \o key \o <<COLON>> \o value \o <<GT>>
Block(content) == LE4(Len(content)) \o content

S_FILE_FEATURE == S_FILE \o S_UNDERSCORE \o S_FEATURE
S_N6 == <<78, 54>>   \* "N6"
S_SEQ_MAIN_BG == S_MAINLAYER \o <<COMMA>> \o S_BGLAYER
GoodSignature == S_SIGNATURE_PREFIX \o <<50, 48, 50, 51, 48, 48, 49, 53>>

\* encoded bitmaps: 4 white pixels; idx + 1 black pixels for the page of index idx
WhiteBitmap == <<101, 3>>
BlackBitmap(idx) == <<97, idx>>
\* the number a page index of one or two decimal digits spells
TwoDigits(idx) ==
  IF Len(idx) = 1 THEN idx[1] - 48 ELSE (idx[1] - 48) * 10 + (idx[2] - 48)

\* file with the page of index idx (a decimal string) appended: the bitmap blocks, the layer
\* blocks and the page block; the page block's address is returned with the file
WithPage(file, layerSeq, idx) ==
  LET mainBmpAt == Len(file)
      f1 == file \o Block(BlackBitmap(TwoDigits(idx)))
      bgBmpAt == Len(f1)
      f2 == f1 \o Block(WhiteBitmap)
      mainAt == Len(f2)
      f3 == f2 \o Block(Tag(S_LAYERPROTOCOL, S_RATTA_RLE)
                          \o Tag(S_LAYERBITMAP, Dec(mainBmpAt)))
      bgAt == Len(f3)
      f4 == f3 \o Block(Tag(S_LAYERBITMAP, Dec(bgBmpAt)))
      seqTags == CASE layerSeq = "absent" -> <<>>
                   [] layerSeq = "main,bg" -> Tag(S_LAYERSEQ, S_SEQ_MAIN_BG)
                   [] layerSeq = "twice" -> Tag(S_LAYERSEQ, S_MAINLAYER)
                                              \o Tag(S_LAYERSEQ, S_BGLAYER)
                   [] layerSeq \in {"bgZero", "bgAbsent"}
                                         -> Tag(S_LAYERSEQ, S_SEQ_MAIN_BG)
      bgTag == CASE layerSeq = "bgZero" -> Tag(S_BGLAYER, S_ZERO)
                 [] layerSeq = "bgAbsent" -> <<>>
                 [] OTHER -> Tag(S_BGLAYER, Dec(bgAt))
  IN  [file |-> f4 \o Block(seqTags \o Tag(S_MAINLAYER, Dec(mainAt)) \o bgTag),
       pageAt |-> Len(f4)]

\* the pages of indices idxs appended in that order; the footer's PAGE tags
\* are collected in the same order
RECURSIVE WithPages(_, _, _, _)
WithPages(file, tags, idxs, layerSeq) ==
  IF idxs = <<>> THEN [file |-> file, tags |-> tags]
  ELSE LET one == WithPage(file, layerSeq, idxs[1])
       IN  WithPages(one.file,
                     tags \o Tag(S_PAGE \o idxs[1], Dec(one.pageAt)),
                     Tail(idxs), layerSeq)

\* A .note file: signature, header block at 24, the pages, the footer block,
\* and the footer's address in the last 4 bytes.
\*   equipment: "N5", "N6", or "none" for a header without APPLY_EQUIPMENT
\*   feature:   "tag": the footer holds FILE_FEATURE:24, "absent": it does not,
\*              "past": FILE_FEATURE names an address past the end of the file
\*   footerAt:  "good", "zero": the last 4 bytes are 0, "past": they name an
\*              address past the end of the file
\*   layerSeq:  "absent": no LAYERSEQ tag, "main,bg": MAINLAYER,BGLAYER,
\*              "twice": two LAYERSEQ tags, "bgZero": MAINLAYER,BGLAYER with
\*              the tag BGLAYER:0, "bgAbsent": the same with no BGLAYER tag
MakeNote(signature, equipment, feature, footerAt, idxs, layerSeq) ==
  LET header == CASE equipment = "N5" -> Tag(S_APPLY_EQUIPMENT, S_N5)
                  [] equipment = "N6" -> Tag(S_APPLY_EQUIPMENT, S_N6)
                  [] equipment = "none" -> <<>>
      f1 == signature \o Block(header)
      body == WithPages(f1, <<>>, idxs, layerSeq)
      past == Len(body.file) + 1000
      featureTag == CASE feature = "tag" -> Tag(S_FILE_FEATURE, Dec(Len(signature)))
                      [] feature = "absent" -> <<>>
                      [] feature = "past" -> Tag(S_FILE_FEATURE, Dec(past))
      footerAddress == Len(body.file)
      f2 == body.file \o Block(featureTag \o body.tags)
  IN  f2 \o LE4(CASE footerAt = "good" -> footerAddress
                  [] footerAt = "zero" -> 0
                  [] footerAt = "past" -> past)

MaxPages == 2
\* "1", "2", "10" and "03": unique strings that convert to different integers
PageIndexValues == {<<49>>, <<50>>, <<49, 48>>, <<48, 51>>}
\* the page indices of a file, in the order of the footer's PAGE tags
PageOrders ==
  {idxs \in UNION {[1..n -> PageIndexValues] : n \in 0..MaxPages} :
     \A a, b \in 1..Len(idxs) : a # b => idxs[a] # idxs[b]}

\* buffers whose first 24 bytes are not a signature, and two that are
OddSignatures ==
  { S_SIGNATURE_PREFIX \o <<50, 48, 50, 51, 48, 48, 49>> \o <<120>>,     \* 7 digits and "x"
    S_SIGNATURE_PREFIX \o <<120>> \o <<50, 48, 50, 51, 48, 48, 49>>,     \* "x" and 7 digits
    S_SIGNATURE_PREFIX \o <<50, 48, 50, 51>> \o <<200>> \o <<48, 49, 53>>,   \* a non-ASCII byte
    <<110, 111, 116, 101, 83, 78, 95, 70, 73, 76, 69, 95, 118, 101, 114, 95>> \o <<50, 48, 50, 51, 48, 48, 49, 53>>,
    <<109, 97, 114, 107, 83, 78, 95, 70, 73, 76, 69, 95, 86, 69, 82, 95>> \o <<50, 48, 50, 51, 48, 48, 49, 53>>,
    <<32>> \o S_SIGNATURE_PREFIX \o <<50, 48, 50, 51, 48, 48, 49>>,      \* shifted by one
    S_SIGNATURE_PREFIX \o <<48, 48, 48, 48, 48, 49, 50, 51>>,
    S_SIGNATURE_PREFIX \o <<57, 57, 57, 57, 57, 57, 57, 57>> }

\* a well-formed body behind any of the signatures
InitNoteSignatures ==
  \E sig \in OddSignatures \cup {GoodSignature}, idxs \in PageOrders :
    /\ noteMade = [shape |-> "file", signature |-> sig, equipment |-> "N5",
                   feature |-> "tag", footerAt |-> "good", pages |-> idxs,
                   layerSeq |-> "absent"]
    /\ noteBuffer = MakeNote(sig, "N5", "tag", "good", idxs, "absent")

\* a file cut off after its first n bytes, n from 0 to past the signature
InitNoteTruncated ==
  \E sig \in OddSignatures \cup {GoodSignature}, n \in {0, 3, 16, 23, 24, 25, 28} :
    /\ noteMade = [shape |-> "truncated", signature |-> sig, length |-> n]
    /\ noteBuffer = SubSeq(MakeNote(sig, "N5", "tag", "good", <<(<<49>>)>>, "absent"), 1, n)

\* a good signature before every kind of header, footer and pages
InitNoteBodies ==
  \E equipment \in {"N5", "N6", "none"}, feature \in {"tag", "absent", "past"},
     footerAt \in {"good", "zero", "past"}, idxs \in PageOrders,
     layerSeq \in {"absent", "main,bg", "twice"} :
    /\ noteMade = [shape |-> "file", signature |-> GoodSignature,
                   equipment |-> equipment, feature |-> feature,
                   footerAt |-> footerAt, pages |-> idxs, layerSeq |-> layerSeq]
    /\ noteBuffer = MakeNote(GoodSignature, equipment, feature, footerAt, idxs, layerSeq)

\* a good file whose footer names some page index more than once: every
\* PAGE tag has page blocks of its own
RepeatedPageOrders ==
  {idxs \in UNION {[1..n -> PageIndexValues] : n \in 2..(MaxPages + 1)} :
     \E a, b \in 1..Len(idxs) : a # b /\ idxs[a] = idxs[b]}

InitNoteRepeated ==
  \E idxs \in RepeatedPageOrders :
    /\ noteMade = [shape |-> "repeated", signature |-> GoodSignature,
                   equipment |-> "N5", feature |-> "tag", footerAt |-> "good",
                   pages |-> idxs, layerSeq |-> "absent"]
    /\ noteBuffer = MakeNote(GoodSignature, "N5", "tag", "good", idxs, "absent")

\* a good file whose pages name BGLAYER in LAYERSEQ but give it the address
\* 0 or no address tag
InitNoteLayers ==
  \E idxs \in PageOrders, layerSeq \in {"bgZero", "bgAbsent"} :
    /\ noteMade = [shape |-> "file", signature |-> GoodSignature,
                   equipment |-> "N5", feature |-> "tag", footerAt |-> "good",
                   pages |-> idxs, layerSeq |-> layerSeq]
    /\ noteBuffer = MakeNote(GoodSignature, "N5", "tag", "good", idxs, layerSeq)

InitNote ==
  /\ \/ InitNoteSignatures \/ InitNoteTruncated \/ InitNoteBodies
     \/ InitNoteRepeated \/ InitNoteLayers
  /\ noteOut = [kind |-> "pending"]
  /\ IdleRle /\ IdleBlk /\ IdleTag /\ IdleRen /\ IdleAnn /\ IdlePlg /\ IdleView /\ IdleGrp /\ IdleU32 /\ IdlePdf

\* the call parseSupernoteFile(buffer)
ParseNote ==
  /\ noteMade.shape # "none"
  /\ noteOut.kind = "pending"
  /\ noteOut' = parseSupernoteFile(noteBuffer)
  /\ UNCHANGED <<noteBuffer, noteMade>>
  /\ UNCHANGED <<rleVars, blkVars, tagVars, renVars, annVars, plgVars, viewVars, grpVars, u32Vars, pdfVars>>

NextNote == ParseNote

SpecNote == InitNote /\ [][NextNote]_vars

-----------------------------------------------------------------------------
(* Properties of parseSupernoteFile                                         *)

NoteParsed == noteOut.kind # "pending"

\* bytes [0, 24) of buf are "noteSN_FILE_VER_" and 8 decimal digits
SignatureBytesOk(buf) ==
  /\ Len(buf) >= 24
  /\ \A k \in 1..16 : buf[k] = S_SIGNATURE_PREFIX[k]
  /\ \A k \in 17..24 : buf[k] \in 48..57

\* the integer the 8 digits at bytes [16, 24) of buf spell
RECURSIVE VersionOf(_, _)
VersionOf(buf, k) ==
  IF k = 16 THEN 0 ELSE VersionOf(buf, k - 1) * 10 + (buf[k] - 48)

\* the address in the last 4 bytes of the buffer is not 0 and names no block
\* that lies inside the buffer
FooterUnresolved ==
  LET footerAddress == NumAsIndex(ReadUint32LE(noteBuffer, Len(noteBuffer) - 4))
  IN  footerAddress # 0 /\ ~BlockInside(noteBuffer, footerAddress)

\* the footer is read and its FILE_FEATURE tag names an address past the end
HeaderUnresolved ==
  /\ noteMade.shape = "file"
  /\ noteMade.footerAt = "good" /\ noteMade.feature = "past"

\* C9: parseNote returns a typed error or a complete Document: when the footer
\* address (last 4 bytes) or the header address cannot be resolved to a block
\* inside the buffer, the parse fails with an error and returns no Document,
\* not even one with zero pages or the default page size.
C9_UnresolvedAddressFails ==
  (NoteParsed /\ SignatureBytesOk(noteBuffer)
     /\ (FooterUnresolved \/ HeaderUnresolved))
    => noteOut.kind = "error"

\* C10: parseNote fails with InvalidSignature if and only if bytes [0, 24) are
\* not noteSN_FILE_VER_ and exactly 8 decimal digits (buffers shorter than 24
\* bytes included); that failure returns no Document, and on success
\* formatVersion is the integer value of the 8 digits.
C10_SignatureDecides ==
  NoteParsed =>
    /\ (noteOut = ParseError("InvalidSignature")) <=> ~SignatureBytesOk(noteBuffer)
    /\ ~SignatureBytesOk(noteBuffer) => noteOut.kind = "error"
    /\ noteOut.kind = "document" => noteOut.version = VersionOf(noteBuffer, 24)

\* a file cut off after 23 bytes of a good signature has been refused
C10_Witness ==
  /\ NoteParsed /\ noteMade.shape = "truncated"
  /\ noteMade.signature = GoodSignature /\ noteMade.length = 23
  /\ noteOut = ParseError("InvalidSignature")

\* the footer block of the file is read: its address is the file's own
FooterRead ==
  /\ NoteParsed /\ noteMade.shape = "file"
  /\ noteMade.footerAt = "good" /\ noteOut.kind = "document"

\* the numeric page index of the k-th page of the Document, read off the
\* page's MAINLAYER bitmap, whose length byte the file builder sets to it
PageNumberAt(k) == noteOut.pages[k].layers[1].bitmapData.bytes[2]

\* C12: the pages of the Document are in ascending numeric order of their
\* page indices, whatever the order of the footer's PAGE tags, and every
\* page index of the footer has exactly one page.
C12_PagesAscendNumerically ==
  FooterRead =>
    /\ Len(noteOut.pages) = Len(noteMade.pages)
    /\ \A k \in 1..(Len(noteOut.pages) - 1) : PageNumberAt(k) < PageNumberAt(k + 1)
    /\ {PageNumberAt(k) : k \in 1..Len(noteOut.pages)}
         = {parseInt(noteMade.pages[k]).val : k \in 1..Len(noteMade.pages)}

\* a footer with PAGE10 before PAGE03 gives page 3 before page 10
C12_Witness ==
  /\ FooterRead
  /\ noteMade.pages = << <<49, 48>>, <<48, 51>> >>
  /\ Len(noteOut.pages) = 2
  /\ PageNumberAt(1) = 3 /\ PageNumberAt(2) = 10

-----------------------------------------------------------------------------
(* mark-parser.ts: extractParameters                                        *)

\* the line terminators, which "." of a regular expression does not match
IsLineTerminator(c) == c \in {10, 13, 8232, 8233}

\* /<([^:<>]+):(.*?)>/ tried at position k.  The key is the longest run of
\* [^:<>]; the lazy value ends at the first ">" and holds no line terminator
\* (it may be empty, and may hold "<" and ":").
MarkMatchAt(text, k) ==
  LET keyEnd == RunEnd(text, k + 1)
      closes == {j \in (keyEnd + 1)..Len(text) : text[j] = GT}
      valEnd == IF closes = {} THEN 0
                ELSE CHOOSE j \in closes : \A x \in closes : j <= x
  IN  IF /\ k <= Len(text) /\ text[k] = LT
         /\ keyEnd > k + 1
         /\ keyEnd <= Len(text) /\ text[keyEnd] = COLON
         /\ valEnd # 0
         /\ \A j \in (keyEnd + 1)..(valEnd - 1) : ~IsLineTerminator(text[j])
        THEN [ok |-> TRUE, key |-> SubSeq(text, k + 1, keyEnd - 1),
              value |-> SubSeq(text, keyEnd + 1, valEnd - 1), next |-> valEnd + 1]
        ELSE [ok |-> FALSE]

\* the pattern.exec(content) loop: the matches from left to right
RECURSIVE MarkMatchAll(_, _)
MarkMatchAll(text, k) ==
  LET starts == {j \in k..Len(text) : text[j] = LT /\ MarkMatchAt(text, j).ok}
  IN  IF starts = {} THEN <<>>
      ELSE LET j == CHOOSE x \in starts : \A y \in starts : x <= y
               mt == MarkMatchAt(text, j)
           IN  <<[key |-> mt.key, value |-> mt.value]>>
                 \o MarkMatchAll(text, mt.next)

\* if (params[key]): an array, a function or a non-empty string
Truthy(params, key) ==
  /\ In(params, key)
  /\ LET existing == Lookup(params, key)
     IN  existing.arr \/ existing.items[1] # <<>>

\* the loop body of extractParameters
MarkFoldPair(params, key, value) ==
  IF Truthy(params, key)
    THEN LET existing == Lookup(params, key)
         IN  IF ~existing.arr
               THEN Put(params, key, Array(<<existing.items[1], value>>))
               ELSE Put(params, key, Array(Append(existing.items, value)))
    ELSE Put(params, key, Scalar(value))

RECURSIVE MarkFoldPairs(_, _)
MarkFoldPairs(params, pairs) ==
  IF pairs = <<>> THEN params
  ELSE MarkFoldPairs(MarkFoldPair(params, pairs[1].key, pairs[1].value),
                     Tail(pairs))

extractParameters(content) == MarkFoldPairs(<<>>, MarkMatchAll(content, 1))

-----------------------------------------------------------------------------
(* The tag extractors on texts put together from a few pieces               *)

Extractors == {"extractKeyValue", "extractParameters"}

\* the pieces: whole tags with keys a and b, a tag with an inherited key, a
\* tag with an empty value, a tag left open, a line feed and a stray letter
TagPieces ==
  { <<60, 97, 58, 49, 62>>,      \* "<a:1>"
    <<60, 97, 58, 50, 62>>,      \* "<a:2>"
    <<60, 98, 58, 49, 62>>,      \* "<b:1>"
    <<60, 118, 97, 108, 117, 101, 79, 102, 58, 49, 62>>,   \* "<valueOf:1>"
    <<60, 97, 58, 62>>,          \* "<a:>"
    <<60, 97, 58, 120>>,         \* "<a:x"
    <<10>>,                      \* "\n"
    <<122>> }                    \* "z"

MaxPieces == 3

RECURSIVE Concat(_)
Concat(pieces) ==
  IF pieces = <<>> THEN <<>> ELSE pieces[1] \o Concat(Tail(pieces))

TagTexts ==
  {Concat(ps) : ps \in UNION {[1..n -> TagPieces] : n \in 0..MaxPieces}}

CallExtractor(extractor, text) ==
  CASE extractor = "extractKeyValue"   -> extractKeyValue(text)
    [] extractor = "extractParameters" -> extractParameters(text)

InitTag ==
  /\ tagText \in TagTexts
  /\ tagExtractor \in Extractors
  /\ tagOut = [done |-> FALSE, data |-> <<>>]
  /\ IdleRle /\ IdleBlk /\ IdleNote /\ IdleRen /\ IdleAnn /\ IdlePlg /\ IdleView /\ IdleGrp /\ IdleU32 /\ IdlePdf

Extract ==
  /\ ~tagOut.done
  /\ tagOut' = [done |-> TRUE, data |-> CallExtractor(tagExtractor, tagText)]
  /\ UNCHANGED <<tagText, tagExtractor>>
  /\ UNCHANGED <<rleVars, blkVars, noteVars, renVars, annVars, plgVars, viewVars, grpVars, u32Vars, pdfVars>>

NextTag == Extract

SpecTag == InitTag /\ [][NextTag]_vars

-----------------------------------------------------------------------------
(* Properties of the tag extractors                                         *)

\* the tokens of a text by the grammar <key:value>, key and value longest
\* runs without "<", ">" and ":", and the values a key has among them
Tokens(text) == MatchAll(text, 1)
ValuesOf(tokens, key) ==
  LET at == {k \in 1..Len(tokens) : tokens[k].key = key}
      Nth(n) == CHOOSE k \in at : Cardinality({j \in at : j < k}) = n - 1
  IN  [n \in 1..Cardinality(at) |-> tokens[Nth(n)].value]

\* C11: whichever extractor scans a text, a key with one token in the text
\* maps to that token's value as a scalar, and a key with n >= 2 tokens maps
\* to the sequence of all n values in the order of the text.
C11_FoldsInOrder ==
  tagOut.done =>
    \A k \in 1..Len(Tokens(tagText)) :
      LET key == Tokens(tagText)[k].key
          values == ValuesOf(Tokens(tagText), key)
      IN  /\ Has(tagOut.data, key)
          /\ Get(tagOut.data, key) =
               IF Len(values) = 1 THEN Scalar(values[1]) ELSE Array(values)

-----------------------------------------------------------------------------
(* renderer.ts: decodeRLE as a function, renderPage                         *)

\* decodeRLE's for loop from the pair at position k on, then the tail
RECURSIVE DecodeFrom(_, _, _, _)
DecodeFrom(st, buf, k, len) ==
  IF k < Len(buf)
    THEN DecodeFrom(DecodePair(st, len, buf[k], buf[k + 1]), buf, k + 2, len)
    ELSE FlushTail(st, len)

\* the Uint8Array decodeRLE returns, pixel by pixel: <<r, g, b, a>> of the run
\* that covers the pixel, and the zeros of a fresh array where no run does
decodeRLE(buf, w, h) ==
  LET len == w * h * 4
      st == DecodeFrom(DecoderState([runs |-> <<>>, maxIdx |-> -1], 0, <<>>, <<>>),
                       buf, 1, len)
      runs == st.raster.runs
      RunsAt(p) == {k \in 1..Len(runs) : runs[k].from <= p /\ p < runs[k].to}
  IN  [q \in 1..(w * h) |->
         IF RunsAt(q - 1) = {} THEN <<0, 0, 0, 0>>
         ELSE runs[CHOOSE k \in RunsAt(q - 1) : \A j \in RunsAt(q - 1) : j <= k].rgba]

\* page.layers.find((l) => l.name === name): <<>> for undefined
FindLayer(page, name) ==
  LET found == {k \in 1..Len(page.layers) : page.layers[k].name = name}
  IN  IF found = {} THEN <<>>
      ELSE <<page.layers[CHOOSE k \in found : \A j \in found : k <= j]>>

RECURSIVE MapFindLayers(_, _)
MapFindLayers(page, names) ==
  IF names = <<>> THEN <<>>
  ELSE <<FindLayer(page, names[1])>> \o MapFindLayers(page, Tail(names))

\* .filter((l) => l !== void 0 && l.bitmapData !== null)
RECURSIVE FilterWithBitmap(_)
FilterWithBitmap(found) ==
  IF found = <<>> THEN <<>>
  ELSE IF found[1] # <<>> /\ found[1][1].bitmapData # Null
    THEN <<found[1][1]>> \o FilterWithBitmap(Tail(found))
  ELSE FilterWithBitmap(Tail(found))

Reverse(seq) == [k \in 1..Len(seq) |-> seq[Len(seq) + 1 - k]]

\* line 262: layersToRender
LayersInSequenceOrder(page) ==
  FilterWithBitmap(MapFindLayers(page, page.layerSequence))
LayersToRender(page) ==
  Reverse(FilterWithBitmap(MapFindLayers(page, page.layerSequence)))

\* line 262 again: map and filter return new arrays and reverse() reverses
\* the array filter returned, so page.layerSequence is what it was
LayerSequenceReversedInPlace(page) == Reverse(page.layerSequence)
LayerSequenceAfterRender(page) == page.layerSequence

\* lines 268-287: one pixel of a layer over one pixel of outputData.  The
\* Uint8Array keeps the integer part of what is assigned to it.  (Every alpha
\* decodeRLE writes is 0 or 255, so the last branch is never taken here.)
CompositePixel(dst, src) ==
  LET srcA == src[4]
      dstA == dst[4]
      outA255 == 255 * srcA + dstA * (255 - srcA)       \* 255 * outA
      Channel(c) == (255 * src[c] * srcA + dst[c] * dstA * (255 - srcA)) \div outA255
  IN  IF srcA = 0 THEN dst
      ELSE IF srcA = 255 THEN <<src[1], src[2], src[3], 255>>
      ELSE IF outA255 > 0
        THEN <<Channel(1), Channel(2), Channel(3), outA255 \div 255>>
      ELSE dst

CompositeLayer(outputData, layerData) ==
  [q \in 1..Len(outputData) |->
     IF q <= Len(layerData) THEN CompositePixel(outputData[q], layerData[q])
     ELSE outputData[q]]

\* lines 263-291: the layers painted one after the other; a layer whose
\* bitmapData is empty is passed over
RECURSIVE CompositeLayers(_, _, _, _)
CompositeLayers(outputData, layers, w, h) ==
  IF layers = <<>> THEN outputData
  ELSE IF Len(layers[1].bitmapData.bytes) = 0
    THEN CompositeLayers(outputData, Tail(layers), w, h)
  ELSE CompositeLayers(
         CompositeLayer(outputData, decodeRLE(layers[1].bitmapData.bytes, w, h)),
         Tail(layers), w, h)

\* lines 292-299: Math.round(r * 0.299 + g * 0.587 + b * 0.114) in r, g and b
Grayscale(px) ==
  LET gray == (299 * px[1] + 587 * px[2] + 114 * px[3] + 500) \div 1000
  IN  <<gray, gray, gray, px[4]>>

RenderNull == [kind |-> "null"]
RenderError(name) == [kind |-> "error", error |-> name]

\* renderPage(note, pageIndex), pageIndex an integer.  note.pages[pageIndex]
\* is undefined for a negative pageIndex, and page.layerSequence then throws.
renderPage(note, pageIndex) ==
  IF pageIndex >= Len(note.pages) THEN RenderNull
  ELSE IF pageIndex < 0 THEN RenderError("TypeError")
  ELSE LET page == note.pages[pageIndex + 1]
           w == note.pageWidth
           h == note.pageHeight
           white == [q \in 1..(w * h) |-> <<255, 255, 255, 255>>]
           outputData == CompositeLayers(white, LayersToRender(page), w, h)
       IN  [kind |-> "image", width |-> w, height |-> h,
            data |-> [q \in 1..(w * h) |-> Grayscale(outputData[q])]]
-----------------------------------------------------------------------------
(* mark-renderer.ts: decodeRle                                              *)

\* ANNOTATION_COLORS[colorCode] || [255, 0, 255, 255]
AnnotationColor(c) ==
  CASE c = 97  -> <<0, 0, 0, 255>>
    [] c = 98  -> <<0, 0, 0, 0>>
    [] c = 99  -> <<100, 100, 100, 255>>
    [] c = 100 -> <<180, 180, 180, 255>>
    [] c = 101 -> <<255, 255, 255, 255>>
    [] c = 102 -> <<0, 0, 0, 200>>
    [] c = 103 -> <<100, 100, 100, 180>>
    [] c = 104 -> <<180, 180, 180, 150>>
    [] c = 158 -> <<100, 100, 100, 180>>
    [] c = 202 -> <<180, 180, 180, 150>>
    [] OTHER   -> <<255, 0, 255, 255>>

\* the while loop of decodeRle from dataIndex (0-based) and pixelIndex on:
\* the runs [from, to) of pixels it writes.  The length byte is the run's
\* length as it stands, 255 standing for SPECIAL_LENGTH; a run stops at the
\* last pixel of the raster.
RECURSIVE MarkRunsFrom(_, _, _, _, _)
MarkRunsFrom(data, dataIndex, pixelIndex, cap, runs) ==
  IF ~(dataIndex < Len(data) /\ pixelIndex < cap) THEN runs
  ELSE IF dataIndex + 1 >= Len(data) THEN runs
  ELSE LET colorCode == data[dataIndex + 1]
           byte == data[dataIndex + 2]
           length == IF byte = SPECIAL_LENGTH_MARKER THEN SPECIAL_LENGTH ELSE byte
           n == Min(length, cap - pixelIndex)
       IN  MarkRunsFrom(data, dataIndex + 2, pixelIndex + n, cap,
                        IF n = 0 THEN runs
                        ELSE Append(runs, [rgba |-> AnnotationColor(colorCode),
                                           from |-> pixelIndex,
                                           to |-> pixelIndex + n]))

\* decodeRle(data, width, height): the runs written into the transparent raster
decodeRle(data, w, h) == MarkRunsFrom(data, 0, 0, w * h, <<>>)

\* decodeRLE(buffer, width, height) of renderer.ts on the same arguments
NoteRuns(buf, w, h) ==
  DecodeFrom(DecoderState([runs |-> <<>>, maxIdx |-> -1], 0, <<>>, <<>>),
             buf, 1, w * h * 4).raster.runs

InitAnn ==
  /\ annData \in RleInputs
  /\ \E d \in RleDims : annWidth = d[1] /\ annHeight = d[2]
  /\ annOut = [done |-> FALSE, mark |-> <<>>, note |-> <<>>]
  /\ IdleRle /\ IdleBlk /\ IdleNote /\ IdleTag /\ IdleRen /\ IdlePlg /\ IdleView /\ IdleGrp /\ IdleU32 /\ IdlePdf

\* both decoders called on the same bytes, width and height
DecodeBoth ==
  /\ ~annOut.done
  /\ annOut' = [done |-> TRUE,
                mark |-> decodeRle(annData, annWidth, annHeight),
                note |-> NoteRuns(annData, annWidth, annHeight)]
  /\ UNCHANGED <<annData, annWidth, annHeight>>
  /\ UNCHANGED <<rleVars, blkVars, noteVars, tagVars, renVars, plgVars, viewVars, grpVars, u32Vars, pdfVars>>

NextAnn == DecodeBoth

SpecAnn == InitAnn /\ [][NextAnn]_vars

-----------------------------------------------------------------------------
(* Properties of decodeRle                                                  *)

\* where the runs lie: <<from, to>> of each, colours left out
Positions(runs) == [k \in 1..Len(runs) |-> <<runs[k].from, runs[k].to>>]

\* C16: on every byte sequence, width and height the mark decoder writes the
\* same runs at the same pixel positions as the note decoder; only the
\* colours differ.
C16_SameRunsAsNoteDecoder ==
  annOut.done => Positions(annOut.mark) = Positions(annOut.note)


-----------------------------------------------------------------------------
(* The Documents renderPage is called on                                    *)

S_PNG == <<80, 78, 71>>   \* "PNG", a codec that is not RATTA_RLE

\* a Layer record as parseSupernoteFile builds it
Layer(name, protocol, bitmap) ==
  [name |-> name, protocol |-> Scalar(protocol), bitmapData |-> bitmap]
AbsentLayer(name) == Layer(name, <<>>, Null)

\* MAINLAYER: two black pixels; a transparent pixel then a black one; two
\* black pixels under another codec; no bitmap
MainLayers ==
  { Layer(S_MAINLAYER, S_RATTA_RLE, Bytes(<<97, 1>>)),
    Layer(S_MAINLAYER, S_RATTA_RLE, Bytes(<<98, 0, 97, 0>>)),
    Layer(S_MAINLAYER, S_PNG, Bytes(<<97, 1>>)),
    AbsentLayer(S_MAINLAYER) }

\* BGLAYER: four gray pixels; a dark gray pixel then transparent ones; an
\* empty bitmap
BgLayers ==
  { Layer(S_BGLAYER, S_RATTA_RLE, Bytes(<<100, 3>>)),
    Layer(S_BGLAYER, S_RATTA_RLE, Bytes(<<99, 0, 98, 3>>)),
    Layer(S_BGLAYER, S_RATTA_RLE, Bytes(<<>>)) }

\* LAYERSEQ values; the last one names a layer that no page has
LayerSequences ==
  { <<S_MAINLAYER>>,
    <<S_MAINLAYER, S_BGLAYER>>,
    <<S_BGLAYER, S_MAINLAYER>>,
    <<S_unknown, S_LAYER1, S_BGLAYER, S_MAINLAYER>> }

Page(main, bg, seq) ==
  [layers |-> <<main, AbsentLayer(S_LAYER1), AbsentLayer(S_LAYER2),
                AbsentLayer(S_LAYER3), bg>>,
   layerSequence |-> seq]

AllPages ==
  {Page(main, bg, seq) : main \in MainLayers, bg \in BgLayers, seq \in LayerSequences}

\* the pages of the Documents of more than one page
SomePages ==
  { Page(Layer(S_MAINLAYER, S_RATTA_RLE, Bytes(<<97, 1>>)),
         Layer(S_BGLAYER, S_RATTA_RLE, Bytes(<<100, 3>>)), <<S_MAINLAYER>>),
    Page(Layer(S_MAINLAYER, S_RATTA_RLE, Bytes(<<98, 0, 97, 0>>)),
         Layer(S_BGLAYER, S_RATTA_RLE, Bytes(<<100, 3>>)),
         <<S_MAINLAYER, S_BGLAYER>>),
    Page(Layer(S_MAINLAYER, S_PNG, Bytes(<<97, 1>>)),
         Layer(S_BGLAYER, S_RATTA_RLE, Bytes(<<99, 0, 98, 3>>)),
         <<S_BGLAYER, S_MAINLAYER>>) }

MaxRenPages == 2
\* <<pageWidth, pageHeight>>
RenDims == {<<2, 1>>, <<1, 3>>}

RenPageLists ==
  {<<>>} \cup {<<p>> : p \in AllPages}
    \cup UNION {[1..n -> SomePages] : n \in 2..MaxRenPages}

InitRen ==
  /\ \E d \in RenDims, ps \in RenPageLists :
       renNote = [pageWidth |-> d[1], pageHeight |-> d[2], pages |-> ps]
  /\ renIndex = 0
  /\ renOut = [kind |-> "pending"]
  /\ renFirst = [kind |-> "none"]
  /\ IdleRle /\ IdleBlk /\ IdleNote /\ IdleTag /\ IdleAnn /\ IdlePlg /\ IdleView /\ IdleGrp /\ IdleU32 /\ IdlePdf

\* the call renderPage(note, pageIndex), for any pageIndex from -1 to one
\* past the last page
RenderPage ==
  /\ renFirst.kind # "idle"
  /\ \E pageIndex \in -1..(Len(renNote.pages) + 1) :
       /\ renIndex' = pageIndex
       /\ renOut' = renderPage(renNote, pageIndex)
       /\ renFirst' = IF renFirst.kind = "none"
                        THEN [kind |-> "call", index |-> pageIndex,
                              out |-> renderPage(renNote, pageIndex),
                              since |-> {}]
                        ELSE [renFirst EXCEPT !.since = @ \cup {pageIndex}]
       /\ renNote' =
            IF pageIndex >= 0 /\ pageIndex < Len(renNote.pages)
              THEN [renNote EXCEPT !.pages[pageIndex + 1].layerSequence =
                      LayerSequenceAfterRender(renNote.pages[pageIndex + 1])]
              ELSE renNote
  /\ UNCHANGED <<rleVars, blkVars, noteVars, tagVars, annVars, plgVars, viewVars, grpVars, u32Vars, pdfVars>>

NextRen == RenderPage

SpecRen == InitRen /\ [][NextRen]_vars

-----------------------------------------------------------------------------
(* Properties of renderPage                                                 *)

RenderReturned == renOut.kind # "pending"

\* C13: renderPage returns the absent value, and raises no error, for every
\* pageIndex outside 0 .. pages.length - 1, negative ones included, and a
\* raster of pageWidth x pageHeight pixels for every pageIndex inside.
C13_OutOfRangeIsAbsent ==
  RenderReturned =>
    IF renIndex >= 0 /\ renIndex < Len(renNote.pages)
      THEN /\ renOut.kind = "image"
           /\ renOut.width = renNote.pageWidth
           /\ renOut.height = renNote.pageHeight
           /\ Len(renOut.data) = renNote.pageWidth * renNote.pageHeight
      ELSE renOut = RenderNull

\* the page of the last call, when the call returned a raster
RenderedPage == renNote.pages[renIndex + 1]

\* the layers the page's layerSequence names that have a bitmap, in declared
\* order, and whether each of them declares the RLE codec
DeclaredLayers(page) ==
  LET named == {k \in 1..Len(page.layerSequence) :
                  \E j \in 1..Len(page.layers) :
                    /\ page.layers[j].name = page.layerSequence[k]
                    /\ page.layers[j].bitmapData # Null}
      Nth(n) == CHOOSE k \in named : Cardinality({j \in named : j < k}) = n - 1
  IN  [n \in 1..Cardinality(named) |->
         LET name == page.layerSequence[Nth(n)]
         IN  page.layers[CHOOSE j \in 1..Len(page.layers) :
                           page.layers[j].name = name]]
AllRle(layers) ==
  \A k \in 1..Len(layers) : layers[k].protocol = Scalar(S_RATTA_RLE)

\* the colour the layer has at pixel q (1-based) of a w x h raster
LayerPixel(layer, q, w, h) == decodeRLE(layer.bitmapData.bytes, w, h)[q]

\* C14: compositing runs in the reverse of the declared order: every pixel of
\* the raster has the colour of the earliest-declared layer that is opaque at
\* that pixel, and is white where every declared layer is transparent.
C14_FirstDeclaredOnTop ==
  (RenderReturned /\ renOut.kind = "image" /\ AllRle(DeclaredLayers(RenderedPage))) =>
    LET layers == DeclaredLayers(RenderedPage)
        w == renNote.pageWidth
        h == renNote.pageHeight
    IN  \A q \in 1..(w * h) :
          LET opaque == {k \in 1..Len(layers) : LayerPixel(layers[k], q, w, h)[4] = 255}
          IN  IF opaque = {} THEN renOut.data[q] = <<255, 255, 255, 255>>
              ELSE renOut.data[q] =
                     LayerPixel(layers[CHOOSE k \in opaque : \A j \in opaque : k <= j],
                                q, w, h)

\* MAINLAYER declared before BGLAYER, transparent at the first pixel and black
\* at the second, over a gray BGLAYER: gray shows through, then black on top
C14_Witness ==
  /\ RenderReturned /\ renOut.kind = "image"
  /\ RenderedPage.layerSequence = <<S_MAINLAYER, S_BGLAYER>>
  /\ RenderedPage.layers[1] = Layer(S_MAINLAYER, S_RATTA_RLE, Bytes(<<98, 0, 97, 0>>))
  /\ RenderedPage.layers[5] = Layer(S_BGLAYER, S_RATTA_RLE, Bytes(<<100, 3>>))
  /\ renNote.pageWidth = 2 /\ renNote.pageHeight = 1
  /\ renOut.data = << <<128, 128, 128, 255>>, <<0, 0, 0, 255>> >>

\* the Document with every layer that declares another codec than RATTA_RLE
\* left without a bitmap
WithoutOtherCodecs(note) ==
  [note EXCEPT !.pages =
     [k \in 1..Len(note.pages) |->
        [note.pages[k] EXCEPT !.layers =
           [j \in 1..Len(note.pages[k].layers) |->
              LET layer == note.pages[k].layers[j]
              IN  IF layer.protocol = Scalar(S_RATTA_RLE) THEN layer
                  ELSE [layer EXCEPT !.bitmapData = Null]]]]]

\* C15: a layer whose codec is not RATTA_RLE is treated as having no bitmap:
\* renderPage raises no error and returns the raster it returns for the same
\* Document with that layer absent.
C15_OtherCodecIsNoBitmap ==
  RenderReturned /\ renIndex >= 0 =>
    renOut = renderPage(WithoutOtherCodecs(renNote), renIndex)

-----------------------------------------------------------------------------
(* main.ts: the plugin's cache of rendered images                           *)

MAX_CACHE_ENTRIES == 10

\* The plugin's cache state; paths are numbered, path k standing for the
\* k-th file of the vault (no path is the empty string).
PluginCache(cache, order) == [imageCache |-> cache, cacheOrder |-> order]

CachedPaths(cache) == {e.path : e \in cache}
\* imageCache.get(filePath), for a path the cache has
EntryOf(cache, filePath) == CHOOSE e \in cache : e.path = filePath
\* cacheOrder.filter(p => p !== filePath)
WithoutPath(order, filePath) == SelectSeq(order, LAMBDA p : p # filePath)

\* getCachedImages(filePath, mtime): <<>> for null, else <<entry>>
getCachedImages(plugin, filePath, mtime) ==
  IF /\ filePath \in CachedPaths(plugin.imageCache)
     /\ EntryOf(plugin.imageCache, filePath).mtime = mtime
    THEN [plugin |-> [plugin EXCEPT !.cacheOrder =
                        Append(WithoutPath(@, filePath), filePath)],
          entry |-> <<EntryOf(plugin.imageCache, filePath)>>]
    ELSE [plugin |-> plugin, entry |-> <<>>]

\* the while loop of setCachedImages
RECURSIVE EvictOldest(_)
EvictOldest(plugin) ==
  IF Len(plugin.cacheOrder) >= MAX_CACHE_ENTRIES
    THEN EvictOldest(
           PluginCache({e \in plugin.imageCache : e.path # Head(plugin.cacheOrder)},
                       Tail(plugin.cacheOrder)))
    ELSE plugin

setCachedImages(plugin, filePath, mtime, images, totalPages) ==
  LET evicted == EvictOldest(plugin)
  IN  PluginCache({e \in evicted.imageCache : e.path # filePath}
                    \cup {[path |-> filePath, mtime |-> mtime, images |-> images,
                           totalPages |-> totalPages]},
                  Append(WithoutPath(evicted.cacheOrder, filePath), filePath))

invalidateCache(plugin, filePath) ==
  PluginCache({e \in plugin.imageCache : e.path # filePath},
              WithoutPath(plugin.cacheOrder, filePath))

-----------------------------------------------------------------------------
(* The cache under calls for the oldest, the newest and the next new path   *)

MaxPaths == 11
MaxCalls == 12
CacheMtimes == {1, 2}

ThePlugin == PluginCache(imageCache, cacheOrder)
\* the paths the calls are made for: the first path that is not cached (a file
\* opened for the first time), the oldest cached one (a file opened again
\* after a long time) and the newest (the file on display, reloaded)
NextNewPath ==
  IF \E p \in 1..MaxPaths : p \notin CachedPaths(imageCache)
    THEN {CHOOSE p \in 1..MaxPaths :
            /\ p \notin CachedPaths(imageCache)
            /\ \A q \in 1..(p - 1) : q \in CachedPaths(imageCache)}
    ELSE {}
OldestPath == IF cacheOrder = <<>> THEN {} ELSE {Head(cacheOrder)}
NewestPath == IF cacheOrder = <<>> THEN {} ELSE {cacheOrder[Len(cacheOrder)]}

\* the images of a file as rendered from the contents of the given mtime
ImagesOf(path, version, totalPages) ==
  [k \in 1..totalPages |-> [path |-> path, version |-> version, page |-> k]]

InitCache ==
  /\ imageCache = {} /\ cacheOrder = <<>> /\ filePositions = {}
  /\ cacheCalls = 0
  /\ IdleRle /\ IdleBlk /\ IdleNote /\ IdleTag /\ IdleRen /\ IdleAnn /\ IdleView /\ IdleGrp /\ IdleU32 /\ IdlePdf

GetCachedFor(path, mtime) ==
  LET got == getCachedImages(ThePlugin, path, mtime)
  IN  /\ imageCache' = got.plugin.imageCache
      /\ cacheOrder' = got.plugin.cacheOrder
      /\ cacheCalls' = cacheCalls + 1
      /\ UNCHANGED filePositions
      /\ UNCHANGED <<rleVars, blkVars, noteVars, tagVars, renVars, annVars, viewVars, grpVars, u32Vars, pdfVars>>

SetCachedFor(path, mtime) ==
  LET set == setCachedImages(ThePlugin, path, mtime, ImagesOf(path, mtime, 1), 1)
  IN  /\ imageCache' = set.imageCache
      /\ cacheOrder' = set.cacheOrder
      /\ cacheCalls' = cacheCalls + 1
      /\ UNCHANGED filePositions
      /\ UNCHANGED <<rleVars, blkVars, noteVars, tagVars, renVars, annVars, viewVars, grpVars, u32Vars, pdfVars>>

InvalidateFor(path) ==
  LET inv == invalidateCache(ThePlugin, path)
  IN  /\ imageCache' = inv.imageCache
      /\ cacheOrder' = inv.cacheOrder
      /\ cacheCalls' = cacheCalls + 1
      /\ UNCHANGED filePositions
      /\ UNCHANGED <<rleVars, blkVars, noteVars, tagVars, renVars, annVars, viewVars, grpVars, u32Vars, pdfVars>>

\* a lookup with the mtime the files are stored under, or with a later one
CallPaths == OldestPath \cup NewestPath \cup NextNewPath

GetCached ==
  /\ cacheCalls < MaxCalls
  /\ \E path \in CallPaths, mtime \in CacheMtimes : GetCachedFor(path, mtime)

\* a new path is stored with mtime 1, a cached one again with mtime 2
SetCached ==
  /\ cacheCalls < MaxCalls
  /\ \E path \in CallPaths :
       SetCachedFor(path, IF path \in CachedPaths(imageCache) THEN 2 ELSE 1)

Invalidate ==
  /\ cacheCalls < MaxCalls
  /\ \E path \in CallPaths : InvalidateFor(path)

NextCache == GetCached \/ SetCached \/ Invalidate

SpecCache == InitCache /\ [][NextCache]_vars

-----------------------------------------------------------------------------
(* Properties of the cache                                                  *)

\* the last n elements of a sequence, all of them when it has fewer
LastOf(seq, n) ==
  {seq[k] : k \in (IF Len(seq) > n THEN Len(seq) - n + 1 ELSE 1)..Len(seq)}

\* cacheOrder with the path moved to its end: the order of last use after a
\* hit on the path or a store of it
UsedLast(path) == Append(WithoutPath(cacheOrder, path), path)

\* C18: the cache never holds more than 10 entries and cacheOrder lists its
\* paths; a store leaves in the cache exactly the (up to 10) most recently
\* used paths, the stored one being the most recent, so that it evicts an
\* entry only when the path is new and the cache holds 10, and then the
\* least recently used one; a lookup evicts nothing.
C18_LruOfTen ==
  /\ [](/\ Cardinality(imageCache) <= MAX_CACHE_ENTRIES
        /\ CachedPaths(imageCache) = LastOf(cacheOrder, Len(cacheOrder))
        /\ Cardinality(imageCache) = Len(cacheOrder))
  /\ [][\A path \in 1..MaxPaths, mtime \in CacheMtimes :
          /\ SetCachedFor(path, mtime) =>
                CachedPaths(imageCache') = LastOf(UsedLast(path), MAX_CACHE_ENTRIES)
          /\ GetCachedFor(path, mtime) =>
                CachedPaths(imageCache') = CachedPaths(imageCache)]_vars

-----------------------------------------------------------------------------
(* main.ts: SupernoteView                                                   *)

\* The plugin and the views together, as the handlers of a view change them.
World(cache, order, positions, vs, ts) ==
  [imageCache |-> cache, cacheOrder |-> order, filePositions |-> positions,
   views |-> vs, tasks |-> ts]

\* A view as its constructor leaves it. file is the FileView field (0 for
\* null); toolbar, contentArea and pagesContainer say whether the element
\* exists (the toolbar stands for all renderToolbar and
\* renderThumbnailSidebar make: pageInput, mainContainer, thumbnailContainer);
\* pageImages are the page elements on display, each by its image or NoImage;
\* thumbnails are the thumbnail wrappers, each by its image or NoImage;
\* error says whether the view shows the "Error loading file" message;
\* savePositionTimeout says whether the timer of debouncedSavePosition runs;
\* life is "open" while the modify handler is registered; pageOf is the path
\* of the file whose load set currentPage last (0: none has), which the view
\* itself does not record.
NewView(life) ==
  [life |-> life, file |-> 0, renderGeneration |-> 0,
   currentPage |-> 1, pageOf |-> 0, totalPages |-> 0, renderedImages |-> <<>>,
   toolbar |-> FALSE, contentArea |-> FALSE, pagesContainer |-> FALSE,
   pageImages |-> <<>>, thumbnails |-> <<>>, error |-> FALSE,
   scrollObserver |-> FALSE, savePositionTimeout |-> FALSE]

\* an element that holds no image: a page element whose render failed, a
\* thumbnail wrapper whose image is not yet inserted
NoImage == [path |-> 0, version |-> 0, page |-> 0]

clearView(view) ==
  [view EXCEPT !.scrollObserver = FALSE, !.renderedImages = <<>>,
               !.pagesContainer = FALSE, !.contentArea = FALSE,
               !.pageImages = <<>>, !.thumbnails = <<>>, !.error = FALSE,
               !.toolbar = FALSE]

\* data.filePositions[path]: <<>> for undefined, else <<page>>
StoredPage(positions, path) ==
  IF \E pr \in positions : pr[1] = path
    THEN <<(CHOOSE pr \in positions : pr[1] = path)[2]>>
    ELSE <<>>

saveFilePosition(w, v) ==
  LET view == w.views[v]
  IN  IF view.file = 0
        THEN w
        ELSE [w EXCEPT !.filePositions =
                {pr \in @ : pr[1] # view.file} \cup {<<view.file, view.currentPage>>}]

\* data.filePositions[this.file.path] || 1
loadFilePosition(w, v) ==
  LET view == w.views[v]
      stored == StoredPage(w.filePositions, view.file)
  IN  IF view.file = 0 THEN 1
      ELSE IF stored # <<>> /\ stored[1] # 0 THEN stored[1]
      ELSE 1

\* the number of pages of the note a file holds, by path and contents: file 1
\* has 2 pages, then 1; file 2 has 1 page, then none
NotePages(path, version) == Max(0, 4 - path - version)

\* the return of the suspended call s
Return(w, s) == [w EXCEPT !.tasks = @ \ {s}]
\* the call s suspended again, as t
Suspend(w, s, t) == [w EXCEPT !.tasks = (@ \ {s}) \cup {t}]

\* the second loop of populateThumbnailsAsync from the top of iteration index
\* to the next await (taken after the iterations 0, 5, ...) or the end
RECURSIVE ThumbnailsFromUnchecked(_, _, _)
ThumbnailsFromUnchecked(w, s, index) ==
  LET view == w.views[s.view]
      loaded == IF index < Len(view.thumbnails)
                  THEN [w EXCEPT !.views[s.view].thumbnails[index + 1] =
                                    view.renderedImages[index + 1]]
                  ELSE w
  IN  IF index >= Len(view.renderedImages) THEN Return(w, s)
      ELSE IF index % 5 = 0
        THEN Suspend(loaded, s, [s EXCEPT !.at = "thumbnails", !.i = index + 1])
      ELSE ThumbnailsFromUnchecked(loaded, s, index + 1)
RECURSIVE ThumbnailsFrom(_, _, _)
ThumbnailsFrom(w, s, index) ==
  LET view == w.views[s.view]
      loaded == IF index < Len(view.thumbnails)
                  THEN [w EXCEPT !.views[s.view].thumbnails[index + 1] =
                                    view.renderedImages[index + 1]]
                  ELSE w
  IN  IF index >= Len(view.renderedImages) THEN Return(w, s)
      ELSE IF s.generation # view.renderGeneration THEN Return(w, s)
      ELSE IF index % 5 = 0
        THEN Suspend(loaded, s, [s EXCEPT !.at = "thumbnails", !.i = index + 1])
      ELSE ThumbnailsFrom(loaded, s, index + 1)

\* populateThumbnailsAsync(generation) up to its first await, called by the
\* onLoadFile call s (a record of the call that is not among the tasks)
populateThumbnailsAsync(w, s) ==
  LET view == w.views[s.view]
  IN  IF ~view.toolbar \/ view.renderedImages = <<>> THEN Return(w, s)
      ELSE ThumbnailsFrom(
             [w EXCEPT !.views[s.view].thumbnails =
                          [k \in 1..Len(view.renderedImages) |-> NoImage]],
             s, 0)

\* onLoadFile(file) up to its first await; stat gives file.stat.mtime
onLoadFile(w, v, path, stat) ==
  LET generation == w.views[v].renderGeneration + 1
      cleared == [clearView(w.views[v]) EXCEPT !.renderGeneration = generation]
      w1 == [w EXCEPT !.views[v] = cleared]
      savedPage == loadFilePosition(w1, v)
      got == getCachedImages(PluginCache(w.imageCache, w.cacheOrder), path, stat[path])
  IN  IF got.entry # <<>>
        THEN populateThumbnailsAsync(
               [w1 EXCEPT
                !.cacheOrder = got.plugin.cacheOrder,
                !.views[v] = [cleared EXCEPT
                   !.renderedImages = got.entry[1].images,
                   !.totalPages = got.entry[1].totalPages,
                   !.currentPage = Min(savedPage, got.entry[1].totalPages),
                   !.pageOf = path,
                   !.toolbar = TRUE, !.contentArea = TRUE, !.pagesContainer = TRUE,
                   !.pageImages = got.entry[1].images,
                   !.scrollObserver = TRUE]],
               [view |-> v, generation |-> generation, path |-> path,
                savedPage |-> savedPage, at |-> "thumbnails", buffer |-> 0, i |-> 0])
        ELSE [w1 EXCEPT
                !.tasks = @ \cup {[view |-> v, generation |-> generation,
                                   path |-> path, savedPage |-> savedPage,
                                   at |-> "readBinary", buffer |-> 0, i |-> 0]}]

\* onLoadFile's catch block for the suspended call s
CatchError(w, s) ==
  IF s.generation # w.views[s.view].renderGeneration
    THEN Return(w, s)
    ELSE [Return(w, s) EXCEPT !.views[s.view].error = TRUE]

\* onLoadFile after renderPages has returned
AfterRenderPages(w, s, stat) ==
  LET view == w.views[s.view]
      set == setCachedImages(PluginCache(w.imageCache, w.cacheOrder), s.path,
                             stat[s.path], view.renderedImages, view.totalPages)
  IN  IF s.generation # view.renderGeneration
        THEN Return(w, s)
        ELSE populateThumbnailsAsync(
               [w EXCEPT
                  !.imageCache = set.imageCache,
                  !.cacheOrder = set.cacheOrder,
                  !.views[s.view].scrollObserver = view.contentArea],
               s)

\* the loop of renderPages from the top of iteration index to the next
\* await, for the suspended call s and the contents read: without pagesContainer the
\* createEl call throws and onLoadFile's catch block ends the call; rendered
\* says whether renderPage and imageDataToDataUrl give the page's image or throw
RenderPagesFromUnchecked(w, s, contents, index, stat, rendered) ==
  LET view == w.views[s.view]
      image == [path |-> s.path, version |-> contents, page |-> index + 1]
  IN  IF index >= NotePages(s.path, contents) THEN AfterRenderPages(w, s, stat)
      ELSE IF ~view.pagesContainer THEN CatchError(w, s)
      ELSE [Suspend(w, s, [s EXCEPT !.at = "renderPages", !.buffer = contents,
                                    !.i = index + 1])
              EXCEPT !.views[s.view].renderedImages =
                        IF rendered THEN Append(@, image) ELSE @,
                     !.views[s.view].pageImages =
                        Append(@, IF rendered THEN image ELSE NoImage)]
RenderPagesFrom(w, s, contents, index, stat, rendered) ==
  LET view == w.views[s.view]
      image == [path |-> s.path, version |-> contents, page |-> index + 1]
  IN  IF index >= NotePages(s.path, contents) THEN AfterRenderPages(w, s, stat)
      ELSE IF s.generation # view.renderGeneration THEN Return(w, s)
      ELSE IF ~view.pagesContainer THEN CatchError(w, s)
      ELSE [Suspend(w, s, [s EXCEPT !.at = "renderPages", !.buffer = contents,
                                    !.i = index + 1])
              EXCEPT !.views[s.view].renderedImages =
                        IF rendered THEN Append(@, image) ELSE @,
                     !.views[s.view].pageImages =
                        Append(@, IF rendered THEN image ELSE NoImage)]

\* onLoadFile from the return of readBinary with the contents to the next await
AfterReadBinary(w, s, contents, stat, rendered) ==
  LET view == w.views[s.view]
      totalPages == NotePages(s.path, contents)
  IN  IF s.generation # view.renderGeneration
        THEN Return(w, s)
        ELSE RenderPagesFrom(
               [w EXCEPT !.views[s.view] =
                  [view EXCEPT !.totalPages = totalPages,
                               !.currentPage = Min(s.savedPage, totalPages),
                               !.pageOf = s.path,
                               !.toolbar = TRUE, !.contentArea = TRUE,
                               !.pagesContainer = TRUE]],
               s, contents, 0, stat, rendered)

\* fileChangeHandler(changedFile) of view v
fileChangeHandler(w, v, path, stat) ==
  IF w.views[v].file # 0 /\ path = w.views[v].file
    THEN LET inv == invalidateCache(PluginCache(w.imageCache, w.cacheOrder), path)
         IN  onLoadFile([w EXCEPT !.imageCache = inv.imageCache,
                                  !.cacheOrder = inv.cacheOrder],
                        v, path, stat)
    ELSE w

\* the vault's 'modify' event, delivered to the registered handlers in turn
RECURSIVE TriggerModify(_, _, _, _)
TriggerModify(w, v, path, stat) ==
  IF v > Len(w.views) THEN w
  ELSE TriggerModify(IF w.views[v].life = "open"
                       THEN fileChangeHandler(w, v, path, stat)
                       ELSE w,
                     v + 1, path, stat)

-----------------------------------------------------------------------------
(* Views on a vault of two files                                            *)

MaxViews == 2
MaxMtime == 2
MaxLoads == 3
ViewPaths == {1, 2}

\* what the render of a page may give: the render of the first page of file 1
\* may fail, every other page is rendered
RenderOutcomes(path, page) == IF path = 1 /\ page = 1 THEN BOOLEAN ELSE {TRUE}

TheWorld == World(imageCache, cacheOrder, filePositions, views, tasks)
\* a closed view with no suspended call and no timer is garbage: nothing
\* reads its fields again
Garbage(w, v) ==
  /\ w.views[v].life = "closed"
  /\ ~w.views[v].savePositionTimeout
  /\ \A t \in w.tasks : t.view # v
Becomes(w) ==
  /\ imageCache' = w.imageCache
  /\ cacheOrder' = w.cacheOrder
  /\ filePositions' = w.filePositions
  /\ views' = [v \in 1..MaxViews |->
                 IF Garbage(w, v)
                   THEN [NewView("closed") EXCEPT
                           !.renderGeneration = w.views[v].renderGeneration]
                   ELSE w.views[v]]
  /\ tasks' = w.tasks
  /\ UNCHANGED cacheCalls
  /\ UNCHANGED <<rleVars, blkVars, noteVars, tagVars, renVars, annVars, grpVars, u32Vars, pdfVars>>

\* the number of onLoadFile calls made so far, over all views
RECURSIVE LoadsUpTo(_)
LoadsUpTo(v) == IF v = 0 THEN 0 ELSE views[v].renderGeneration + LoadsUpTo(v - 1)
Loads == LoadsUpTo(MaxViews)
\* the open views that display the path
Displaying(path) == {v \in 1..MaxViews : views[v].life = "open" /\ views[v].file = path}

InitView ==
  /\ fileStat = [path \in ViewPaths |-> 1]
  /\ views = [v \in 1..MaxViews |-> NewView("unborn")]
  /\ tasks = {}
  /\ imageCache = {} /\ cacheOrder = <<>> /\ filePositions = {} /\ cacheCalls = 0
  /\ IdleRle /\ IdleBlk /\ IdleNote /\ IdleTag /\ IdleRen /\ IdleAnn /\ IdleGrp /\ IdleU32 /\ IdlePdf

\* new SupernoteView(leaf, plugin): a view is made when the one before it
\* has been closed
Construct(v) ==
  /\ views[v].life = "unborn"
  /\ \A u \in 1..(v - 1) : views[u].life = "closed"
  /\ Becomes([TheWorld EXCEPT !.views[v] = NewView("open")])
  /\ UNCHANGED fileStat

\* onUnloadFile(file)
onUnloadFile(w, v) ==
  LET saved == saveFilePosition(w, v)
  IN  [saved EXCEPT !.views[v] = clearView(@)]

\* FileView.loadFile on a view without a file: it sets this.file and calls
\* onLoadFile
LoadFile(v, path) ==
  /\ views[v].life = "open"
  /\ views[v].file = 0
  /\ Loads < MaxLoads
  /\ Becomes(onLoadFile([TheWorld EXCEPT !.views[v].file = path], v, path, fileStat))
  /\ UNCHANGED fileStat

\* FileView.loadFile on a view displaying another file: onUnloadFile for the
\* old file, then this.file is set and onLoadFile called
SwitchFile(v, path) ==
  /\ views[v].life = "open"
  /\ views[v].file # 0 /\ views[v].file # path
  /\ Loads < MaxLoads
  /\ Becomes(onLoadFile([onUnloadFile(TheWorld, v) EXCEPT !.views[v].file = path],
                        v, path, fileStat))
  /\ UNCHANGED fileStat

\* onClose
CloseView(v) ==
  /\ views[v].life = "open"
  /\ LET saved == saveFilePosition(TheWorld, v)
     IN  Becomes([saved EXCEPT !.views[v] = [clearView(@) EXCEPT !.life = "closed"]])
  /\ UNCHANGED fileStat

\* the file is written: its stat changes and 'modify' is triggered
Modify(path) ==
  /\ fileStat[path] < MaxMtime
  /\ Loads + Cardinality(Displaying(path)) <= MaxLoads
  /\ fileStat' = [fileStat EXCEPT ![path] = @ + 1]
  /\ Becomes(TriggerModify(TheWorld, 1, path, fileStat'))

\* readBinary resolves with the contents the file has now; the first page
\* is rendered, or its render fails
ResumeAfterRead(t) ==
  /\ t.at = "readBinary"
  /\ \E rendered \in RenderOutcomes(t.path, 1) :
       Becomes(AfterReadBinary(TheWorld, t, fileStat[t.path], fileStat, rendered))
  /\ UNCHANGED fileStat

\* readBinary rejects, or parseSupernoteFile throws on what was read
ReadFails(t) ==
  /\ t.at = "readBinary"
  /\ Becomes(CatchError(TheWorld, t))
  /\ UNCHANGED fileStat

\* the setTimeout(resolve, 0) at the end of a loop iteration of renderPages;
\* the next page is rendered, or its render fails
ResumeRenderPages(t) ==
  /\ t.at = "renderPages"
  /\ \E rendered \in RenderOutcomes(t.path, t.i + 1) :
       Becomes(RenderPagesFrom(TheWorld, t, t.buffer, t.i, fileStat, rendered))
  /\ UNCHANGED fileStat

\* the setTimeout(resolve, 0) in the second loop of populateThumbnailsAsync
ResumeThumbnails(t) ==
  /\ t.at = "thumbnails"
  /\ Becomes(ThumbnailsFrom(TheWorld, t, t.i))
  /\ UNCHANGED fileStat

goToPrevPage(v) ==
  /\ views[v].life = "open" /\ views[v].toolbar
  /\ views[v].currentPage > 1
  /\ Becomes(saveFilePosition([TheWorld EXCEPT !.views[v].currentPage = @ - 1], v))
  /\ UNCHANGED fileStat

goToNextPage(v) ==
  /\ views[v].life = "open" /\ views[v].toolbar
  /\ views[v].currentPage < views[v].totalPages
  /\ Becomes(saveFilePosition([TheWorld EXCEPT !.views[v].currentPage = @ + 1], v))
  /\ UNCHANGED fileStat

\* handlePageInput with the number value in the page input
handlePageInput(v, value) ==
  /\ views[v].life = "open" /\ views[v].toolbar
  /\ value >= 1 /\ value <= views[v].totalPages
  /\ Becomes(saveFilePosition([TheWorld EXCEPT !.views[v].currentPage = value], v))
  /\ UNCHANGED fileStat

\* the click handler of the thumbnail wrapper of index page - 1
ThumbnailClick(v, page) ==
  /\ views[v].life = "open"
  /\ page \in 1..Len(views[v].thumbnails)
  /\ Becomes(saveFilePosition([TheWorld EXCEPT !.views[v].currentPage = page], v))
  /\ UNCHANGED fileStat

\* the IntersectionObserver callback for the page that has become most visible
ScrollTo(v, page) ==
  /\ views[v].life = "open" /\ views[v].scrollObserver
  /\ page \in 1..Len(views[v].pageImages)
  /\ views[v].currentPage # page
  /\ Becomes([TheWorld EXCEPT !.views[v].currentPage = page,
                              !.views[v].savePositionTimeout = TRUE])
  /\ UNCHANGED fileStat

\* the timer of debouncedSavePosition
SavePositionTimeout(v) ==
  /\ views[v].savePositionTimeout
  /\ Becomes(saveFilePosition([TheWorld EXCEPT !.views[v].savePositionTimeout = FALSE], v))
  /\ UNCHANGED fileStat

NextView ==
  \/ \E v \in 1..MaxViews : Construct(v)
  \/ \E v \in 1..MaxViews, path \in ViewPaths : LoadFile(v, path)
  \/ \E v \in 1..MaxViews, path \in ViewPaths : SwitchFile(v, path)
  \/ \E v \in 1..MaxViews : CloseView(v)
  \/ \E path \in ViewPaths : Modify(path)
  \/ \E t \in tasks : ResumeAfterRead(t)
  \/ \E t \in tasks : ReadFails(t)
  \/ \E t \in tasks : ResumeRenderPages(t)
  \/ \E t \in tasks : ResumeThumbnails(t)
  \/ \E v \in 1..MaxViews, value \in 1..2 : handlePageInput(v, value)
  \/ \E v \in 1..MaxViews, page \in 1..2 : ThumbnailClick(v, page)
  \/ \E v \in 1..MaxViews : goToPrevPage(v)
  \/ \E v \in 1..MaxViews : goToNextPage(v)
  \/ \E v \in 1..MaxViews, page \in 1..2 : ScrollTo(v, page)
  \/ \E v \in 1..MaxViews : SavePositionTimeout(v)

SpecView == InitView /\ [][NextView]_vars
-----------------------------------------------------------------------------
(* Properties of the views                                                  *)

\* the images an open view has on display for its file
Shown(v) ==
  IF views[v].life = "open" /\ views[v].file # 0 THEN views[v].pageImages ELSE <<>>

\* no open view displays an image rendered from contents its file no longer has
NoStaleImageShown ==
  \A v \in 1..MaxViews : \A k \in DOMAIN Shown(v) :
    Shown(v)[k] # NoImage =>
      /\ Shown(v)[k].path = views[v].file
      /\ Shown(v)[k].version = fileStat[views[v].file]

\* no cache entry has an mtime later than the contents its images come from
NoEntryNewerThanItsImages ==
  \A e \in imageCache : \A k \in DOMAIN e.images : e.mtime <= e.images[k].version

\* after a modify event on a displayed file the file has no cache entry and
\* every view displaying it has a fresh onLoadFile call reading the file
ModifyInvalidatesAndReloads ==
  \A path \in ViewPaths :
    (Modify(path) /\ Displaying(path) # {}) =>
      /\ path \notin CachedPaths(imageCache')
      /\ \A v \in Displaying(path) :
           \E t \in tasks' : /\ t.view = v /\ t.path = path
                             /\ t.at = "readBinary"
                             /\ t.generation = views'[v].renderGeneration
                             /\ t.generation = views[v].renderGeneration + 1

\* C19: a view never shows images rendered from an earlier version of its
\* file: no image on display and no cache entry is older than the mtime it
\* goes with, and a modify event on a displayed file invalidates the file's
\* entry and starts a reload, whatever the order of loads, render steps and
\* modifications.
C19_NeverStale ==
  /\ [](NoStaleImageShown /\ NoEntryNewerThanItsImages)
  /\ [][ModifyInvalidatesAndReloads]_vars

\* the page the toolbar of the view displays, if it has one
PageOnDisplay(v) == IF views[v].toolbar THEN <<views[v].currentPage>> ELSE <<>>
\* the page a load of the path is to open on, before the cap
StoredOrFirst(path) ==
  IF StoredPage(filePositions, path) = <<>> THEN 1 ELSE StoredPage(filePositions, path)[1]

StoredOrFirstAfter(path) ==
  IF StoredPage(filePositions', path) = <<>> THEN 1 ELSE StoredPage(filePositions', path)[1]

\* an unload of a file (for another one) or a close of its view stores the
\* page on display under the path of the file; when the file has no page on
\* display yet, the page its next load opens on stays what it was
UnloadStoresPage ==
  \A v \in 1..MaxViews :
    (((\E path \in ViewPaths : SwitchFile(v, path)) \/ CloseView(v))
       /\ views[v].file # 0) =>
      /\ IF PageOnDisplay(v) # <<>>
           THEN StoredPage(filePositions', views[v].file) = PageOnDisplay(v)
           ELSE StoredOrFirstAfter(views[v].file) = StoredOrFirst(views[v].file)
      /\ \A path \in ViewPaths \ {views[v].file} :
           StoredPage(filePositions', path) = StoredPage(filePositions, path)

\* a load opens on the stored page, or on page 1, capped at the page count
LoadRestoresPage ==
  /\ \A v \in 1..MaxViews, path \in ViewPaths :
       (LoadFile(v, path) \/ SwitchFile(v, path)) =>
         /\ views'[v].toolbar =>
              views'[v].currentPage = Min(StoredOrFirst(path), views'[v].totalPages)
         /\ \A t \in tasks' \ tasks : t.savedPage = StoredOrFirst(path)
  /\ \A t \in tasks :
       (ResumeAfterRead(t) /\ t.generation = views[t.view].renderGeneration
          /\ views[t.view].life = "open") =>
         /\ views'[t.view].totalPages = NotePages(t.path, fileStat[t.path])
         /\ views'[t.view].currentPage = Min(t.savedPage, views'[t.view].totalPages)

\* C20: the page that is current when a file is unloaded or its view closed is
\* stored under the file's path, and the next load of the file opens on the
\* stored page, capped at the page count, or on page 1 when none is stored.
C20_PositionSavedAndRestored == [][UnloadStoresPage /\ LoadRestoresPage]_vars

-----------------------------------------------------------------------------
(* Properties of decodeRLE: the pair read while no holder is pending        *)

\* C21: with no holder pending, a pair with length byte n in 0..127 gives at
\* once one run of exactly n + 1 pixels of its colour, and a pair with length
\* byte in 128..254 gives no run in that round and becomes the pending holder;
\* the holder is always either empty or one pair with length byte in 128..254.
C21_FreshPairEmitsOrHolds ==
  /\ [](holder = <<>> \/ (Len(holder) = 2 /\ holder[2] \in 128..254))
  /\ [][(ReadsPair /\ ~HolderPending)
          => /\ PairLength \in 0..127
                  => /\ writes' = Append(writes,
                                    <<PairColor, resultOffset, PairLength + 1>>)
                     /\ resultOffset' = resultOffset + 4 * (PairLength + 1)
                     /\ holder' = <<>>
             /\ PairLength \in 128..254
                  => /\ writes' = writes
                     /\ result' = result
                     /\ resultOffset' = resultOffset
                     /\ holder' = <<PairColor, PairLength>>]_vars

\* (white, 101) read with no holder has given a run of 102 white pixels, and
\* the pair (black, 129) read after it is the pending holder
C21_Witness ==
  /\ Len(buffer) = 4 /\ i = 5 /\ pc = "loop"
  /\ buffer = <<101, 101, 97, 129>>
  /\ writes = <<<<101, 0, 102>>>>
  /\ resultOffset = 408
  /\ holder = <<97, 129>>

-----------------------------------------------------------------------------
(* extractNestedKeyValue on footers put together from a few tags           *)

\* the tags: pages 1 and 2, page 1 written with the delimiter, the bare
\* prefix, keys with nothing before or after the delimiter, a FILE_ key, a
\* key that is neither, a key whose group names an inherited method and a
\* key with two delimiters
GrpPieces ==
  { <<60, 80, 65, 71, 69, 49, 58, 55, 62>>,   \* "<PAGE1:7>"
    <<60, 80, 65, 71, 69, 95, 49, 58, 57, 62>>,   \* "<PAGE_1:9>"
    <<60, 80, 65, 71, 69, 50, 58, 56, 62>>,   \* "<PAGE2:8>"
    <<60, 80, 65, 71, 69, 58, 53, 62>>,   \* "<PAGE:5>"
    <<60, 95, 65, 58, 49, 62>>,   \* "<_A:1>"
    <<60, 65, 95, 58, 49, 62>>,   \* "<A_:1>"
    <<60, 70, 73, 76, 69, 95, 70, 69, 65, 84, 85, 82, 69, 58, 50, 52, 62>>,   \* "<FILE_FEATURE:24>"
    <<60, 88, 58, 49, 62>>,   \* "<X:1>"
    <<60, 118, 97, 108, 117, 101, 79, 102, 95, 120, 58, 49, 62>>,   \* "<valueOf_x:1>"
    <<60, 65, 95, 66, 95, 67, 58, 51, 62>> }   \* "<A_B_C:3>"

MaxGrpPieces == 3

GrpTexts ==
  {Concat(ps) : ps \in UNION {[1..n -> GrpPieces] : n \in 0..MaxGrpPieces}}

InitGrp ==
  /\ grpText \in GrpTexts
  /\ grpOut = [done |-> FALSE, record |-> <<>>, data |-> <<>>]
  /\ IdleRle /\ IdleBlk /\ IdleNote /\ IdleTag /\ IdleRen /\ IdleAnn /\ IdlePlg /\ IdleView /\ IdleU32 /\ IdlePdf

\* parseSupernoteFile lines 110-111: the footer's tags read and grouped
GroupFooter ==
  /\ ~grpOut.done
  /\ LET footerData == extractKeyValue(grpText)
     IN  grpOut' = [done |-> TRUE, record |-> footerData,
                    data |-> extractNestedKeyValue(footerData, S_UNDERSCORE,
                                                   <<S_PAGE>>)]
  /\ UNCHANGED grpText
  /\ UNCHANGED <<rleVars, blkVars, noteVars, tagVars, renVars, annVars, plgVars, viewVars, u32Vars, pdfVars>>

NextGrp == GroupFooter

SpecGrp == InitGrp /\ [][NextGrp]_vars

-----------------------------------------------------------------------------
(* Properties of extractNestedKeyValue                                      *)

\* where the grouping rule puts a key: the text before and after the first
\* delimiter, else the first prefix the key starts with and the remainder
Placement(key) ==
  LET idx == IndexOf(key, S_UNDERSCORE)
  IN  IF idx > -1
        THEN [placed |-> TRUE, group |-> SubSeq(key, 1, idx),
              subkey |-> SubSeq(key, idx + 2, Len(key))]
      ELSE IF StartsWith(key, S_PAGE)
        THEN [placed |-> TRUE, group |-> S_PAGE,
              subkey |-> SubSeq(key, Len(S_PAGE) + 1, Len(key))]
      ELSE [placed |-> FALSE, group |-> <<>>, subkey |-> <<>>]

\* the keys of the record whose value is a string
ScalarKeys(record) ==
  {record[k].key : k \in {j \in 1..Len(record) : ~record[j].val.arr}}

HasEntry(data, group, subkey) ==
  Has(data, group) /\ Has(Get(data, group), subkey)

\* C22: every string-valued key with the delimiter is found under the group
\* before its first delimiter with the subkey after it, every key without the
\* delimiter under the first prefix it starts with, with the remainder as
\* subkey; nothing else is in the grouped result; and no two distinct keys are
\* put on the same (group, subkey).
C22_GroupsEveryKeyApart ==
  grpOut.done =>
    LET keys == ScalarKeys(grpOut.record)
        placed == {key \in keys : Placement(key).placed}
    IN  /\ \A key \in placed :
             HasEntry(grpOut.data, Placement(key).group, Placement(key).subkey)
        /\ \A g \in 1..Len(grpOut.data) :
             \A e \in 1..Len(grpOut.data[g].val) :
               \E key \in placed :
                 /\ Placement(key).group = grpOut.data[g].key
                 /\ Placement(key).subkey = grpOut.data[g].val[e].key
        /\ \A a, b \in placed :
             a # b => <<Placement(a).group, Placement(a).subkey>>
                        # <<Placement(b).group, Placement(b).subkey>>

\* the footer "<PAGE_1:9><PAGE1:7>" grouped: both keys were put on (PAGE, 1)
\* and the value of the later one is the one left
C22_Collision ==
  /\ grpOut.done
  /\ Len(grpOut.record) = 2
  /\ grpOut.record[1].key = <<80, 65, 71, 69, 95, 49>>
  /\ grpOut.record[2].key = <<80, 65, 71, 69, 49>>
  /\ grpOut.data = <<[key |-> S_PAGE,
                      val |-> <<[key |-> <<49>>, val |-> <<55>>]>>]>>

-----------------------------------------------------------------------------
(* Properties of parseSupernoteFile: page tags that occur more than once    *)

\* the footer's tags as extractKeyValue reads them, and their grouping
FooterDataOf(buf) ==
  parseKeyValue(buf, Number(NumAsIndex(ReadUint32LE(buf, Len(buf) - 4))))
FooterOf(buf) == extractNestedKeyValue(FooterDataOf(buf), S_UNDERSCORE, <<S_PAGE>>)

\* the page indices the file builder wrote n times into the footer
TaggedTimes(n) ==
  {idx \in PageIndexValues :
     Cardinality({k \in 1..Len(noteMade.pages) : noteMade.pages[k] = idx}) = n}
TaggedOnce == TaggedTimes(1)
TaggedMore == PageIndexValues \ (TaggedTimes(0) \cup TaggedTimes(1))

RepeatedRead ==
  NoteParsed /\ noteMade.shape = "repeated"

\* C23: a footer key that occurs more than once was promoted to a sequence
\* and has no entry in the grouped footer; a page whose PAGE<n> tag occurs
\* more than once is not among the Document's pages, and every page whose
\* tag occurs once is.
C23_RepeatedPageTagsSkipped ==
  RepeatedRead =>
    /\ \A idx \in TaggedMore :
         /\ Get(FooterDataOf(noteBuffer), S_PAGE \o idx).arr
         /\ ~HasEntry(FooterOf(noteBuffer), S_PAGE, idx)
    /\ noteOut.kind = "document"
    /\ Len(noteOut.pages) = Cardinality(TaggedOnce)
    /\ {PageNumberAt(k) : k \in 1..Len(noteOut.pages)}
         = {TwoDigits(idx) : idx \in TaggedOnce}

\* a footer with PAGE1, PAGE2, PAGE1 has given a Document with page 2 only
C23_Witness ==
  /\ RepeatedRead
  /\ noteMade.pages = << <<49>>, <<50>>, <<49>> >>
  /\ Len(noteOut.pages) = 1
  /\ PageNumberAt(1) = 2

-----------------------------------------------------------------------------
(* Properties of parseSupernoteFile and renderPage: the layers of a page    *)

\* a Document was parsed from a built file
PagesParsed ==
  /\ NoteParsed /\ noteMade.shape \in {"file", "repeated"}
  /\ noteOut.kind = "document"

\* the layers the file builder gave no address tag, or the address 0
LayersWithoutAddress ==
  {S_LAYER1, S_LAYER2, S_LAYER3}
    \cup (IF noteMade.layerSeq \in {"bgZero", "bgAbsent"} THEN {S_BGLAYER} ELSE {})

\* the record lines 133-136 push for a layer without an address: it has none
\* of what a layer block holds, not even the default protocol
RecordWithoutBlock(name) ==
  [name |-> name, protocol |-> Scalar(<<>>), bitmapData |-> Null]

\* C24: every parsed page has exactly five layer records, MAINLAYER, LAYER1,
\* LAYER2, LAYER3, BGLAYER in that order, whatever LAYERSEQ says; a layer
\* whose address tag is absent or 0 has the record that is made without
\* reading a block, with an absent bitmap, and is not among the layers
\* renderPage composites.
C24_FiveLayersAbsentSkipped ==
  PagesParsed =>
    \A p \in 1..Len(noteOut.pages) :
      LET page == noteOut.pages[p]
      IN  /\ Len(page.layers) = 5
          /\ [k \in 1..5 |-> page.layers[k].name] = LayerNames
          /\ \A k \in 1..5 :
               page.layers[k].name \in LayersWithoutAddress
                 => /\ page.layers[k] = RecordWithoutBlock(page.layers[k].name)
                    /\ \A r \in 1..Len(LayersToRender(page)) :
                         LayersToRender(page)[r].name # page.layers[k].name

\* a page with LAYERSEQ MAINLAYER,BGLAYER and the tag BGLAYER:0 was parsed:
\* BGLAYER is recorded without a bitmap and MAINLAYER alone is composited
C24_Witness ==
  /\ PagesParsed /\ noteMade.layerSeq = "bgZero"
  /\ Len(noteOut.pages) = 2
  /\ noteOut.pages[1].layerSequence = <<S_MAINLAYER, S_BGLAYER>>
  /\ noteOut.pages[1].layers[5] = RecordWithoutBlock(S_BGLAYER)
  /\ Len(LayersToRender(noteOut.pages[1])) = 1
  /\ LayersToRender(noteOut.pages[1])[1].name = S_MAINLAYER

-----------------------------------------------------------------------------
(* The two readUint32LE on four bytes                                       *)

U32Readers == {"parser", "mark-parser"}
\* the bytes tried at each of the four places: both sides of the sign bit
U32Bytes == {0, 1, 127, 128, 255}

CallReadUint32LE(reader, data) ==
  CASE reader = "parser"      -> ReadUint32LE(data, 0)
    [] reader = "mark-parser" -> MarkReadUint32LE(data, 0)

InitU32 ==
  /\ u32Data \in [1..4 -> U32Bytes]
  /\ u32Reader \in U32Readers
  /\ u32Out = [done |-> FALSE, value |-> Num32(FALSE, 0, 0)]
  /\ IdleRle /\ IdleBlk /\ IdleNote /\ IdleTag /\ IdleRen /\ IdleAnn /\ IdlePlg /\ IdleView /\ IdleGrp /\ IdlePdf

ReadU32 ==
  /\ ~u32Out.done
  /\ u32Out' = [done |-> TRUE, value |-> CallReadUint32LE(u32Reader, u32Data)]
  /\ UNCHANGED <<u32Data, u32Reader>>
  /\ UNCHANGED <<rleVars, blkVars, noteVars, tagVars, renVars, annVars, plgVars, viewVars, grpVars, pdfVars>>

NextU32 == ReadU32

SpecU32 == InitU32 /\ [][NextU32]_vars

-----------------------------------------------------------------------------
(* Properties of readUint32LE                                               *)

\* C26: for any four bytes b0..b3 both readers return the unsigned value
\* b0 + 256*b1 + 65536*b2 + 16777216*b3, which lies in [0, 2^32); the result
\* is never negative, also not when b3 >= 128.
C26_ReadersUnsigned ==
  u32Out.done =>
    /\ ~u32Out.value.neg
    /\ u32Out.value.hi = u32Data[4] * 256 + u32Data[3]
    /\ u32Out.value.lo = u32Data[2] * 256 + u32Data[1]

\* the mark-parser reader on the bytes 1, 0, 0, 128 has returned
\* -2147483647, which is 2147483649 - 2^32
C26_MarkReaderNegative ==
  /\ u32Out.done /\ u32Reader = "mark-parser"
  /\ u32Data = <<1, 0, 0, 128>>
  /\ u32Out.value = Num32(TRUE, 32767, 65535)

\* the part of C26 that holds: the reader of parser.ts is unsigned for all
\* bytes, and the reader of mark-parser.ts is for b3 < 128
C26_UnsignedApartFromMarkHighByte ==
  (u32Out.done /\ (u32Reader = "parser" \/ u32Data[4] < 128))
    => /\ ~u32Out.value.neg
       /\ u32Out.value.hi = u32Data[4] * 256 + u32Data[3]
       /\ u32Out.value.lo = u32Data[2] * 256 + u32Data[1]

-----------------------------------------------------------------------------
(* Properties of the views: loads that a newer load has overtaken           *)

\* the suspended call belongs to a load that a newer onLoadFile of its view
\* has overtaken
Stale(t) == t.generation # views[t.view].renderGeneration

\* the suspended call t is resumed, whichever await it waits at and however
\* the awaited step ends
Resumed(t) ==
  ResumeAfterRead(t) \/ ReadFails(t) \/ ResumeRenderPages(t) \/ ResumeThumbnails(t)

\* what was before is still there, or the view has dropped it all
KeptOrDropped(after, before) == after = before \/ after = <<>>

\* C25: once a newer onLoadFile has started, a suspended older load, page
\* render or thumbnail population, when resumed, adds no page element, image
\* or thumbnail to the view, leaves the image cache as it is and does not
\* show its error message, at whichever await each load is.
C25_StaleLoadsCancelled ==
  [][\A t \in tasks :
       (Stale(t) /\ Resumed(t)) =>
         /\ KeptOrDropped(views'[t.view].pageImages, views[t.view].pageImages)
         /\ KeptOrDropped(views'[t.view].renderedImages, views[t.view].renderedImages)
         /\ KeptOrDropped(views'[t.view].thumbnails, views[t.view].thumbnails)
         /\ views'[t.view].error => views[t.view].error
         /\ imageCache' = imageCache
         /\ cacheOrder' = cacheOrder]_vars

\* view 1 was loading file 1 and had rendered its first page when file 2 was
\* opened in it; the newer load has rendered its page, and the older load is
\* still suspended in renderPages
C25_Witness ==
  /\ views[1].life = "open" /\ views[1].file = 2
  /\ views[1].renderGeneration = 2
  /\ views[1].pageImages = <<[path |-> 2, version |-> 1, page |-> 1]>>
  /\ \E t \in tasks : /\ t.view = 1 /\ t.generation = 1 /\ t.path = 1
                      /\ t.at = "renderPages" /\ t.i = 1
  /\ \E t \in tasks : /\ t.view = 1 /\ t.generation = 2 /\ t.path = 2
                      /\ t.at = "renderPages" /\ t.i = 1

-----------------------------------------------------------------------------
(* Properties of the views: the current page                                *)

\* the view has finished loading its file: its toolbar is up and no call of
\* the load that made it is suspended before or in renderPages
Loaded(v) ==
  /\ views[v].life = "open" /\ views[v].file # 0 /\ views[v].toolbar
  /\ \A t \in tasks :
       (t.view = v /\ t.generation = views[v].renderGeneration)
         => t.at = "thumbnails"

\* n is a page number of a document of totalPages pages
PageNumber(n, totalPages) == 1 <= n /\ n <= Max(1, totalPages)

\* C28: in every state in which a file has finished loading, after any
\* next-page, previous-page, page-input, thumbnail-click and scroll events,
\* 1 <= currentPage <= max(1, totalPages), and every value saveFilePosition
\* writes for such a view is such a page number.
C28_CurrentPageInRange ==
  /\ [](\A v \in 1..MaxViews :
          Loaded(v) => PageNumber(views[v].currentPage, views[v].totalPages))
  /\ [][\A v \in 1..MaxViews :
          (Loaded(v) /\ StoredPage(filePositions', views[v].file)
                          # StoredPage(filePositions, views[v].file))
            => PageNumber(StoredPage(filePositions', views[v].file)[1],
                          views[v].totalPages)]_vars

\* file 2, whose note has no page after its modification, has finished
\* loading: the current page is 0
C28_PageZero ==
  /\ Loaded(1) /\ views[1].file = 2 /\ fileStat[2] = 2
  /\ views[1].totalPages = 0
  /\ views[1].currentPage = 0

\* the part of C28 that holds: the current page of a loaded document that
\* has at least one page is in 1..totalPages
CurrentPageInRangeUnlessEmpty ==
  \A v \in 1..MaxViews :
    (Loaded(v) /\ views[v].totalPages >= 1)
      => PageNumber(views[v].currentPage, views[v].totalPages)

-----------------------------------------------------------------------------
(* Properties of the views: what is stored as a file's position             *)

\* the view's currentPage is a page of the file it holds: it was set by the
\* load of this file or by an event on the pages of this file
ShowsPageOfFile(v, path) ==
  views[v].file = path /\ views[v].pageOf = path

\* C29: every value written to filePositions[P] is a page number that was the
\* current page while P was the displayed document: whenever the entry of P
\* changes, some view holding P had the written page as its current page of
\* P, before the step or by the event of the step; a pending timer or a
\* load in flight never stores the page of the file displayed before.
C29_StoredPageIsOfItsFile ==
  [][\A path \in ViewPaths :
       StoredPage(filePositions', path) # StoredPage(filePositions, path)
         => \E v \in 1..MaxViews :
              /\ ShowsPageOfFile(v, path)
              /\ \/ StoredPage(filePositions', path) = <<views[v].currentPage>>
                 \/ /\ views'[v].file = path
                    /\ StoredPage(filePositions', path) = <<views'[v].currentPage>>]_vars

\* page 2 is stored for file 2, whose note never has more than one page: it
\* is the page file 1 was on when file 2 was opened in its view
C29_ForeignPageStored ==
  /\ <<2, 2>> \in filePositions
  /\ \A version \in 1..MaxMtime : NotePages(2, version) < 2

-----------------------------------------------------------------------------
(* Properties of the views: the rendered images of a document               *)

\* images are the images of the pages 1..n of the file, in page order
ImagesOfPages(images, path, n) ==
  /\ Len(images) = n
  /\ \A k \in 1..n : images[k].path = path /\ images[k].page = k

\* renderedImages[i] is the image of page i + 1 for every page, and there are
\* as many page elements as pages
AllPagesRendered(v) ==
  /\ ImagesOfPages(views[v].renderedImages, views[v].file, views[v].totalPages)
  /\ Len(views[v].pageImages) = views[v].totalPages

\* C30: once the render of a document has run to completion, or the view has
\* been rebuilt from the cache entry such a render stored, renderedImages[i]
\* is the image of page i + 1 for every page and renderedImages.length =
\* pageElements.length = totalPages, also when the render of a page failed.
C30_ImagesMatchPages ==
  \A v \in 1..MaxViews : Loaded(v) => AllPagesRendered(v)

\* file 1 (2 pages) loaded from the cache entry stored by a render whose
\* first page failed: the one image is that of page 2 and stands at index 0,
\* and the view has one page element
C30_ShiftedFromCache ==
  /\ Loaded(1) /\ views[1].file = 1 /\ views[1].totalPages = 2
  /\ views[1].renderedImages = <<[path |-> 1, version |-> 1, page |-> 2]>>
  /\ views[1].pageImages = views[1].renderedImages
  /\ views[1].renderGeneration >= 2

\* the part of C30 that holds: file 2, no page of which fails to render, in
\* the first view (no view has been closed while it was rendering)
ImagesMatchPagesWithoutFailure ==
  (Loaded(1) /\ views[1].file = 2) => AllPagesRendered(1)

-----------------------------------------------------------------------------
(* annotated-pdf-view.ts: AnnotatedPdfView                                  *)

\* The view as its constructor leaves it.  file is the FileView field (0 for
\* null); pdfDoc and markFile name the path of the file the document or the
\* .mark file was read for (0 for null); annotationCache and annotatedPages
\* hold <<pageNum, path>>: the overlay of the page pageNum of that path;
\* toolbar and pagesContainer say whether the element exists; pageElements
\* counts the page containers; error says whether the error message shows.
NewPdfView ==
  [file |-> 0, renderGeneration |-> 0, pdfDoc |-> 0, totalPages |-> 0,
   markFile |-> 0, annotationCache |-> {}, annotatedPages |-> <<>>,
   toolbar |-> FALSE, pagesContainer |-> FALSE, pageElements |-> 0,
   error |-> FALSE]

\* clearView: totalPages is not reset
PdfClearView(view) ==
  [view EXCEPT !.pdfDoc = 0, !.markFile = 0, !.annotationCache = {},
               !.toolbar = FALSE, !.pagesContainer = FALSE,
               !.pageElements = 0, !.annotatedPages = <<>>, !.error = FALSE]

\* the vault: file 1 is a PDF of 2 pages with a .mark file that annotates its
\* page 1, file 2 a PDF of 1 page without a .mark file
PdfPaths == {1, 2}
NumPages(path) == 3 - path
HasMarkFile(path) == path = 1
\* getAnnotatedPageNumbers(markFile), for the pages that render an overlay
AnnotatedPageNumbers(path) == IF path = 1 THEN <<1>> ELSE <<>>

PdfWorld(view, ts) == [view |-> view, tasks |-> ts]
PdfReturn(w, s) == [w EXCEPT !.tasks = @ \ {s}]
PdfSuspend(w, s, at, page) ==
  [w EXCEPT !.tasks = (@ \ {s}) \cup {[s EXCEPT !.at = at, !.page = page]}]

\* annotationCache[pageNum] = ...
PutAnnotation(cache, pageNum, path) ==
  {a \in cache : a[1] # pageNum} \cup {<<pageNum, path>>}

\* lines 937-944: the overlays of the .mark file of path, rendered and stored
RECURSIVE PreRender(_, _, _)
PreRender(view, path, pageNums) ==
  IF pageNums = <<>> THEN view
  ELSE PreRender([view EXCEPT
                    !.annotationCache = PutAnnotation(@, pageNums[1], path),
                    !.annotatedPages = Append(@, <<pageNums[1], path>>)],
                 path, Tail(pageNums))

\* a.sort((a, b) => a - b) on the page numbers; the pairs keep their paths
RECURSIVE SortAnnotated(_)
SortAnnotated(pages) ==
  IF Len(pages) <= 1 THEN pages
  ELSE LET n == Len(pages)
           sorted == SortAnnotated(SubSeq(pages, 1, n - 1))
           x == pages[n]
           notAfter == {j \in 1..Len(sorted) : sorted[j][1] <= x[1]}
           at == IF notAfter = {} THEN 0
                 ELSE CHOOSE j \in notAfter : \A q \in notAfter : q <= j
       IN  SubSeq(sorted, 1, at) \o <<x>> \o SubSeq(sorted, at + 1, Len(sorted))

\* the loop of renderAllPages from the top of the iteration for pageNum to
\* its awaits (getPage, render and the setTimeout, taken as one)
RenderAllPagesFrom(w, s, pageNum) ==
  IF pageNum > w.view.totalPages THEN PdfReturn(w, s)
  ELSE IF s.generation # w.view.renderGeneration THEN PdfReturn(w, s)
  ELSE [PdfSuspend(w, s, "renderAllPages", pageNum + 1)
          EXCEPT !.view.pageElements = @ + 1]

\* renderAllPages(generation) up to its first await
renderAllPages(w, s) ==
  IF w.view.pdfDoc = 0 \/ ~w.view.pagesContainer THEN PdfReturn(w, s)
  ELSE RenderAllPagesFrom(w, s, 1)

\* onLoadFile lines 948-957: from the check after the .mark file to the
\* first await of renderAllPages
PdfRenderUi(w, s) ==
  IF s.generation # w.view.renderGeneration THEN PdfReturn(w, s)
  ELSE renderAllPages([w EXCEPT !.view.toolbar = TRUE,
                                !.view.pagesContainer = TRUE], s)

\* onLoadFile(file) up to its first await
PdfOnLoadFile(w, path) ==
  LET generation == w.view.renderGeneration + 1
  IN  [w EXCEPT !.view = [PdfClearView(@) EXCEPT !.renderGeneration = generation],
                !.tasks = @ \cup {[generation |-> generation, path |-> path,
                                   at |-> "readBinary", page |-> 0]}]

\* onLoadFile from the return of readBinary to the await of getDocument
PdfAfterReadBinary(w, s) ==
  IF s.generation # w.view.renderGeneration THEN PdfReturn(w, s)
  ELSE PdfSuspend(w, s, "getDocument", 0)

\* onLoadFile from the return of getDocument (lines 923-931) to the next
\* await: the document is assigned before any check of the generation
PdfAfterGetDocument(w, s) ==
  LET w1 == [w EXCEPT !.view.pdfDoc = s.path,
                      !.view.totalPages = NumPages(s.path)]
  IN  IF HasMarkFile(s.path) THEN PdfSuspend(w1, s, "readMark", 0)
      ELSE PdfRenderUi(w1, s)

\* onLoadFile from the return of readBinary(markFile) (lines 932-946) on:
\* the .mark file and its overlays are assigned before the check at line 948
PdfAfterReadMark(w, s) ==
  LET rendered == PreRender([w.view EXCEPT !.markFile = s.path], s.path,
                            AnnotatedPageNumbers(s.path))
      w1 == [w EXCEPT !.view = [rendered EXCEPT
                                  !.annotatedPages = SortAnnotated(@)]]
  IN  PdfRenderUi(w1, s)

\* onLoadFile's catch block
PdfCatchError(w, s) ==
  IF s.generation # w.view.renderGeneration THEN PdfReturn(w, s)
  ELSE [PdfReturn(w, s) EXCEPT !.view.error = TRUE]

\* reRenderPages up to its first await
reRenderPages(w) ==
  LET generation == w.view.renderGeneration + 1
      w1 == [w EXCEPT !.view.renderGeneration = generation]
      s == [generation |-> generation, path |-> w.view.file,
            at |-> "renderAllPages", page |-> 0]
  IN  IF ~w.view.pagesContainer THEN w1
      ELSE renderAllPages([w1 EXCEPT !.view.pageElements = 0], s)

-----------------------------------------------------------------------------
(* One annotated PDF view on a vault of two PDF files                       *)

MaxPdfLoads == 3

ThePdfWorld == PdfWorld(pdfView, pdfTasks)
PdfBecomes(w) ==
  /\ pdfView' = w.view
  /\ pdfTasks' = w.tasks
  /\ UNCHANGED <<rleVars, blkVars, noteVars, tagVars, renVars, annVars, plgVars, viewVars, grpVars, u32Vars>>

InitPdf ==
  /\ pdfView = NewPdfView
  /\ pdfTasks = {}
  /\ IdleRle /\ IdleBlk /\ IdleNote /\ IdleTag /\ IdleRen /\ IdleAnn /\ IdlePlg /\ IdleView /\ IdleGrp /\ IdleU32

\* FileView.loadFile: onUnloadFile for the file held, if any, then this.file
\* is set and onLoadFile called
PdfLoadFile(path) ==
  /\ pdfView.renderGeneration < MaxPdfLoads
  /\ PdfBecomes(PdfOnLoadFile([ThePdfWorld EXCEPT
                                 !.view = [PdfClearView(@) EXCEPT !.file = path]],
                              path))

\* zoomIn or zoomOut, from a button of the toolbar
PdfZoom ==
  /\ pdfView.toolbar
  /\ pdfView.renderGeneration < MaxPdfLoads
  /\ PdfBecomes(reRenderPages(ThePdfWorld))

PdfResumeAfterRead(t) ==
  /\ t.at = "readBinary"
  /\ PdfBecomes(PdfAfterReadBinary(ThePdfWorld, t))

PdfResumeAfterGetDocument(t) ==
  /\ t.at = "getDocument"
  /\ PdfBecomes(PdfAfterGetDocument(ThePdfWorld, t))

PdfResumeAfterReadMark(t) ==
  /\ t.at = "readMark"
  /\ PdfBecomes(PdfAfterReadMark(ThePdfWorld, t))

\* readBinary or getDocument rejects, or parseMarkFile throws
PdfAwaitFails(t) ==
  /\ t.at \in {"readBinary", "getDocument", "readMark"}
  /\ PdfBecomes(PdfCatchError(ThePdfWorld, t))

PdfResumeRenderAllPages(t) ==
  /\ t.at = "renderAllPages"
  /\ PdfBecomes(RenderAllPagesFrom(ThePdfWorld, t, t.page))

NextPdf ==
  \/ \E path \in PdfPaths : PdfLoadFile(path)
  \/ PdfZoom
  \/ \E t \in pdfTasks : PdfResumeAfterRead(t)
  \/ \E t \in pdfTasks : PdfResumeAfterGetDocument(t)
  \/ \E t \in pdfTasks : PdfResumeAfterReadMark(t)
  \/ \E t \in pdfTasks : PdfAwaitFails(t)
  \/ \E t \in pdfTasks : PdfResumeRenderAllPages(t)

SpecPdf == InitPdf /\ [][NextPdf]_vars

-----------------------------------------------------------------------------
(* Properties of AnnotatedPdfView                                           *)

\* the suspended call belongs to a load or re-render that a newer one has
\* overtaken
PdfStale(t) == t.generation # pdfView.renderGeneration

PdfResumed(t) ==
  \/ PdfResumeAfterRead(t) \/ PdfResumeAfterGetDocument(t)
  \/ PdfResumeAfterReadMark(t) \/ PdfAwaitFails(t) \/ PdfResumeRenderAllPages(t)

\* the five fields the loads write
LoadFields(view) ==
  <<view.pdfDoc, view.totalPages, view.markFile, view.annotationCache,
    view.annotatedPages>>

\* the five fields as a completed load of the path leaves them
FieldsOf(path) ==
  <<path, NumPages(path), IF HasMarkFile(path) THEN path ELSE 0,
    {<<AnnotatedPageNumbers(path)[k], path>> :
       k \in 1..Len(AnnotatedPageNumbers(path))},
    [k \in 1..Len(AnnotatedPageNumbers(path)) |->
       <<AnnotatedPageNumbers(path)[k], path>>]>>

\* the load of the file the view holds has completed: its toolbar is up
PdfLoaded == pdfView.file # 0 /\ pdfView.toolbar

\* C27: once a newer onLoadFile has started, a resumed older load writes none
\* of pdfDoc, totalPages, markFile, annotationCache and annotatedPages, and
\* once the newer load has completed these fields describe the newer file
\* only, at whichever await each of the two loads is.
C27_OlderLoadWritesNothing ==
  /\ [](PdfLoaded => LoadFields(pdfView) = FieldsOf(pdfView.file))
  /\ [][\A t \in pdfTasks :
          (PdfStale(t) /\ PdfResumed(t))
            => LoadFields(pdfView') = LoadFields(pdfView)]_vars

\* the load of file 2, which has no .mark file, has completed in a view in
\* which a load of file 1 was in flight: the view holds the .mark file and
\* the overlay of page 1 of file 1
C27_ForeignMarkFile ==
  /\ PdfLoaded /\ pdfView.file = 2 /\ pdfView.pdfDoc = 2
  /\ pdfView.markFile = 1
  /\ pdfView.annotationCache = {<<1, 1>>}
  /\ pdfView.annotatedPages = << <<1, 1>> >>
  /\ \A t \in pdfTasks : ~PdfStale(t)

====
